---------------------------- MODULE Spec2Model ----------------------------
(***************************************************************************)
(* A model of the KBSkills core: the skill matcher                         *)
(* (src/kbskills/skills/matcher.py), the retry wrapper                     *)
(* (src/kbskills/utils/retry.py), the topic pipeline                       *)
(* (src/kbskills/agent/topic_agent.py), the prompt assembler               *)
(* (src/kbskills/skills/executor.py), the skill loader                     *)
(* (src/kbskills/skills/loader.py), the knowledge-graph insertion          *)
(* (src/kbskills/ingestion/pipeline.py) and the text chunker               *)
(* (src/kbskills/utils/text.py).                                           *)
(*                                                                         *)
(* Conventions.  Text is a sequence of one-character strings.  Floats are  *)
(* modelled as exact rationals over a fixed denominator: a cosine          *)
(* similarity is an integer number of hundredths (Cos100), a match score   *)
(* and a trigger threshold are integer numbers of six-hundredths           *)
(* (ScoreScale), so that 0.5*sim, 0.3*m/n and 0.2*p/q are all integers for *)
(* the list lengths of the model.                                          *)
(***************************************************************************)
EXTENDS Integers, Sequences, FiniteSets, TLC

VARIABLES
    \* ---- SkillMatcher.match (matcher.py) ----
    mpc,              \* position inside match: idle/entry/embed_topic/score/done/raised
    topic,            \* the topic argument
    skills,           \* the skills argument (list of Skill)
    top_k,            \* SkillMatcher.top_k
    topic_embedding,  \* local of match, NoVec until the topic is embedded
    midx,             \* index of the next skill the for-loop of match scores
    matches,          \* local list `matches` of match
    mresult,          \* value returned by match
    mattempt,         \* attempt number of the running _embed call (tenacity)
    embedCalls,       \* number of _embed calls issued by this match invocation
    embedTexts,       \* history: the `texts` argument of each of those calls
    merror,           \* the exception match raised, "none" if none
    \* ---- one _compute_score call on its own ----
    cs,               \* its arguments, the _embed response and what it returned
    \* ---- one call of a retry-decorated function (retry.py) ----
    rpc,              \* idle/attempt/decide/sleep/returned/raised
    rconf,            \* the decorator's arguments
    rplan,            \* what the wrapped function does on its i-th invocation
    rattempt,         \* retry_state.attempt_number
    rcalls,           \* number of invocations of the wrapped function
    routcome,         \* retry_state.outcome of the last attempt
    revents,          \* the retry notifications _log_retry emitted
    rresult,          \* what the caller received: a value or an exception
    \* ---- TopicAgent.run (topic_agent.py) ----
    pc,               \* position inside run
    sub_topics,       \* local of run: what _decompose_topic returned
    skill_matches,    \* local of run: what _match_skills returned
    ridx,             \* index of the next element the loop of _retrieve_knowledge takes
    results,          \* local list `results` of _retrieve_knowledge
    retrieved_context,\* local of run
    concerns,         \* local of run: what _identify_concerns returned
    outline,          \* local of run: what _generate_outline returned
    full_outline,     \* the text run saves
    pattempt,         \* attempt number of the running external call
    perror,           \* the exception run raised to its caller, "none" if none
    started,          \* history: the stages in the order they started
    returned,         \* history: the stages in the order they returned
    failed,           \* history: the stage that raised, "none" if none
    search_mode,      \* the search_mode argument of run
    qlog,             \* history: the query_knowledge calls that ended, in order
    gcalls,           \* history: the stages that issued an _llm_call, in order
    dresponse,        \* history: the response _decompose_topic received
    \* ---- one call of a function on its own ----
    fc                \* the function, its arguments, its progress and result

mvars == <<mpc, topic, skills, top_k, topic_embedding, midx, matches, mresult,
           mattempt, embedCalls, embedTexts, merror>>

rvars == <<rpc, rconf, rplan, rattempt, rcalls, routcome, revents, rresult>>

pvars == <<pc, sub_topics, skill_matches, ridx, results, retrieved_context,
           concerns, outline, full_outline, pattempt, perror, started,
           returned, failed, search_mode, qlog, gcalls, dresponse>>

vars == <<mvars, cs, rvars, pvars, fc>>

\* what the steps of one component leave alone
nonMatch == <<cs, rvars, pvars, fc>>
nonScore == <<mvars, rvars, pvars, fc>>
nonRetry == <<mvars, cs, pvars, fc>>
nonRun == <<cs, rvars, fc>>
nonCall == <<mvars, cs, rvars, pvars>>

-----------------------------------------------------------------------------
(* Bounds of the model *)

MaxSkills == 3

\* the values of config.skill_match_top_k the model runs with
TopKs == {1, 2}

-----------------------------------------------------------------------------
(* Generic helpers *)

Range(s) == {s[i] : i \in 1..Len(s)}

Min(a, b) == IF a <= b THEN a ELSE b

\* Python slice s[:n] for n >= 0
Take(s, n) == SubSeq(s, 1, Min(n, Len(s)))

\* all sequences over S of length 0..n
SeqsUpTo(S, n) == UNION {[1..k -> S] : k \in 0..n}

-----------------------------------------------------------------------------
(* Text: str.lower and the `in` operator of str *)

Lower(c) == CASE c = "A" -> "a" [] c = "B" -> "b" [] OTHER -> c

LowerStr(s) == [i \in 1..Len(s) |-> Lower(s[i])]

IsSubstr(k, t) ==
    \E i \in 0..(Len(t) - Len(k)) : SubSeq(t, i + 1, i + Len(k)) = k

\* re.search(pattern, topic) for the patterns of the model: a pattern made of
\* ordinary characters is a literal (case-sensitive) search, a pattern with
\* an unbalanced "(" does not compile and raises re.error; a pattern with
\* "{" stands for a repetition count above the engine's limit (as in
\* a{4294967295}), for which re.search raises OverflowError.
ReSearch(pattern, t) ==
    IF "{" \in Range(pattern) THEN "OverflowError"
    ELSE IF "(" \in Range(pattern) THEN "re.error"
    ELSE IF IsSubstr(pattern, t) THEN "match" ELSE "none"

-----------------------------------------------------------------------------
(* Embeddings and cosine similarity (matcher.py 54-62) *)

NoVec == <<>>

\* the vectors an embedding response may hold; every norm is an integer
Vecs == {<<0, 0>>, <<1, 0>>, <<-1, 0>>, <<3, 4>>}

\* the vectors _embed([topic]) returns inside a match invocation: a unit
\* vector or the degenerate zero vector (against Vecs the cosines are
\* 1.0, -1.0, 0.6 and 0.0)
TopicVecs == {<<1, 0>>, <<0, 0>>}

Dot(a, b) == a[1] * b[1] + a[2] * b[2]

Norm(a) == CHOOSE n \in 0..10 : n * n = Dot(a, a)

\* _cosine_similarity, in hundredths
cosine_similarity(a, b) ==
    IF Norm(a) = 0 \/ Norm(b) = 0 THEN 0
    ELSE (100 * Dot(a, b)) \div (Norm(a) * Norm(b))


-----------------------------------------------------------------------------
(* Skills (loader.py 9-57).  A skill of the model carries the fields the   *)
(* matcher and the header read.                                            *)

ScoreScale == 600          \* a score s stands for s / 600
DomainWeight == 3          \* 0.5 * (sim / 100) * 600
KeywordWeight == 180       \* 0.3 * 600
IntentWeight == 120        \* 0.2 * 600
EvidenceThreshold == 40    \* sim > 0.4, in hundredths

Skill(name, domains, keywords, intent_patterns, threshold) ==
    [name |-> name, display_name |-> name, domains |-> domains,
     keywords |-> keywords, intent_patterns |-> intent_patterns,
     threshold |-> threshold]

\* The skills a skills directory of the model may hold.  Thresholds are in
\* six-hundredths: 0 = 0.0, 60 = 0.1, 150 = 0.25, 450 = 0.75.
SkillPool ==
    { Skill("plain", <<>>, <<>>, <<>>, 0),
      Skill("kw", <<>>, << <<"a">>, <<"a">>, <<"b", "b">> >>, <<>>, 60),
      Skill("dom", <<"d1", "d2">>, <<>>, <<>>, 150),
      Skill("mix", <<"d3">>, << <<"A", "B">> >>,
            << <<"b">>, <<"(", "a">> >>, 450),
      Skill("rep", <<>>, <<>>, << <<"a", "{">>, <<"b">> >>, 0) }

Topics == { <<"A", "b">>, <<"b", "a">> }

-----------------------------------------------------------------------------
(* SkillMatcher._compute_score (matcher.py 64-106) *)

\* a / b of Python on the scaled numerator w * a
TrueDiv(w, a, b) ==
    IF b = 0 THEN [exc |-> "ZeroDivisionError", v |-> 0]
    ELSE [exc |-> "none", v |-> (w * a) \div b]

\* the for-loop over zip(trigger.domains, domain_embeddings), lines 76-81
RECURSIVE DomainLoop(_, _, _, _, _)
DomainLoop(tvec, domains, embs, i, acc) ==
    IF i > Min(Len(domains), Len(embs)) THEN acc
    ELSE LET sim == cosine_similarity(tvec, embs[i])
         IN  DomainLoop(tvec, domains, embs, i + 1,
                 [domain_sim |-> IF sim > acc.domain_sim THEN sim
                                 ELSE acc.domain_sim,
                  matched_domains |->
                      IF sim > EvidenceThreshold
                      THEN Append(acc.matched_domains, domains[i])
                      ELSE acc.matched_domains])

\* domain_sim as the plain maximum of the similarities
DomainPartMax(tvec, domains, embs) ==
    IF domains # <<>>
    THEN DomainLoop(tvec, domains, embs, 1,
                    [domain_sim |-> -100, matched_domains |-> <<>>])
    ELSE [domain_sim |-> 0, matched_domains |-> <<>>]

DomainPart(tvec, domains, embs) ==
    IF domains # <<>>
    THEN DomainLoop(tvec, domains, embs, 1,
                    [domain_sim |-> 0, matched_domains |-> <<>>])
    ELSE [domain_sim |-> 0, matched_domains |-> <<>>]

\* the for-loop over trigger.keywords, lines 88-90
RECURSIVE KeywordLoop(_, _, _, _)
KeywordLoop(topic_lower, keywords, i, matched) ==
    IF i > Len(keywords) THEN matched
    ELSE KeywordLoop(topic_lower, keywords, i + 1,
             IF IsSubstr(LowerStr(keywords[i]), topic_lower)
             THEN Append(matched, keywords[i]) ELSE matched)

\* a variant that compares the keywords with the topic as it is written
KeywordPartCaseSensitive(t, keywords) ==
    IF keywords # <<>>
    THEN LET mk == KeywordLoop(t, keywords, 1, <<>>)
         IN  [matched_keywords |-> mk,
              score |-> TrueDiv(KeywordWeight, Len(mk), Len(keywords))]
    ELSE [matched_keywords |-> <<>>, score |-> [exc |-> "none", v |-> 0]]

KeywordPart(t, keywords) ==
    IF keywords # <<>>
    THEN LET mk == KeywordLoop(LowerStr(t), keywords, 1, <<>>)
         IN  [matched_keywords |-> mk,
              score |-> IF keywords # <<>>
                        THEN TrueDiv(KeywordWeight, Len(mk), Len(keywords))
                        ELSE [exc |-> "none", v |-> 0]]
    ELSE [matched_keywords |-> <<>>, score |-> [exc |-> "none", v |-> 0]]

\* the for-loop over trigger.intent_patterns, lines 97-102
RECURSIVE IntentLoop(_, _, _, _)
IntentLoop(t, patterns, i, n) ==
    IF i > Len(patterns) THEN [exc |-> "none", n |-> n]
    ELSE LET r == ReSearch(patterns[i], t)
         IN  IF r \notin {"match", "none", "re.error"}
             THEN [exc |-> r, n |-> n]
             ELSE IntentLoop(t, patterns, i + 1,
                             IF r = "match" THEN n + 1 ELSE n)

\* lines 95-103 once the loop has ended
IntentScore(loop, patterns) ==
    IF loop.exc # "none" THEN [exc |-> loop.exc, v |-> 0]
    ELSE TrueDiv(IntentWeight, loop.n, Len(patterns))

IntentPartNoGuard(t, patterns) ==
    IntentScore(IntentLoop(t, patterns, 1, 0), patterns)

IntentPart(t, patterns) ==
    IF patterns # <<>>
    THEN IntentScore(IntentLoop(t, patterns, 1, 0), patterns)
    ELSE [exc |-> "none", v |-> 0]

\* _compute_score(topic, topic_embedding, skill), given the response `embs`
\* of the _embed call it makes when the skill has domains
compute_score(t, tvec, skill, embs) ==
    LET d == DomainPart(tvec, skill.domains, embs)
        k == KeywordPart(t, skill.keywords)
        n == IntentPart(t, skill.intent_patterns)
        exc == IF k.score.exc # "none" THEN k.score.exc ELSE n.exc
    IN  [exc |-> exc,
         score |-> IF exc = "none"
                   THEN DomainWeight * d.domain_sim + k.score.v + n.v
                   ELSE 0,
         domain_sim |-> d.domain_sim,
         matched_domains |-> d.matched_domains,
         matched_keywords |-> k.matched_keywords,
         keyword_score |-> k.score.v,
         intent_score |-> n.v]

-----------------------------------------------------------------------------
(* tenacity's stop_after_attempt, as the retry decorators configure it     *)
(* (retry.py 66-72, 87-93, 109-115)                                        *)

\* a stop condition that lets one more attempt through
StopAfterAttemptLate(attempt, max_retries) == attempt > max_retries

StopAfterAttempt(attempt, max_retries) == attempt >= max_retries

EmbedMaxRetries == 3       \* @retry_embedding_call(max_retries=3, ...)

-----------------------------------------------------------------------------
(* SkillMatcher.match (matcher.py 108-134) *)

SkillMatch(skill, idx, out) ==
    [skill |-> skill, idx |-> idx, score |-> out.score,
     matched_domains |-> out.matched_domains,
     matched_keywords |-> out.matched_keywords]

\* the global default a per-skill comparison must not be confused with
\* (config.py 35: skill_match_default_threshold = 0.6)
QualifiesGlobal(score, skill) == score >= 360

\* line 125: score >= threshold, threshold being the skill's own
Qualifies(score, skill) == score >= skill.threshold

\* list.sort(key=lambda m: m.score, reverse=True): a stable sort, equal
\* scores keep their order.  Insertion after every element whose score is
\* at least the new one.
InsertUnstable(sorted, m) ==
    LET pos == Cardinality({i \in 1..Len(sorted) : sorted[i].score > m.score})
    IN  SubSeq(sorted, 1, pos) \o <<m>> \o SubSeq(sorted, pos + 1, Len(sorted))

InsertDesc(sorted, m) ==
    LET pos == Cardinality({i \in 1..Len(sorted) : sorted[i].score >= m.score})
    IN  SubSeq(sorted, 1, pos) \o <<m>> \o SubSeq(sorted, pos + 1, Len(sorted))

RECURSIVE SortLoop(_, _, _)
SortLoop(ms, i, sorted) ==
    IF i > Len(ms) THEN sorted
    ELSE SortLoop(ms, i + 1, InsertDesc(sorted, ms[i]))

SortByScoreDesc(ms) == SortLoop(ms, 1, <<>>)

\* lines 133-134
MatchReturn(ms, k) == Take(SortByScoreDesc(ms), k)

NoScoreCall == [pc |-> "idle"]

\* no run of the pipeline is in progress
RunIdle ==
    /\ pc = "idle"
    /\ sub_topics = <<>>
    /\ skill_matches = <<>>
    /\ ridx = 0
    /\ results = <<>>
    /\ retrieved_context = <<>>
    /\ concerns = <<>>
    /\ outline = <<>>
    /\ full_outline = <<>>
    /\ pattempt = 0
    /\ perror = "none"
    /\ started = <<>>
    /\ returned = <<>>
    /\ failed = "none"
    /\ search_mode = "none"
    /\ qlog = <<>>
    /\ gcalls = <<>>
    /\ dresponse = <<>>

\* no function is called on its own
NoCall == [fn |-> "none"]
CallIdle == fc = NoCall

\* no retry-decorated call of its own is in progress
NoOutcome == [kind |-> "none"]

RetryIdle ==
    /\ rpc = "idle"
    /\ rconf = [operation |-> "", max_retries |-> 0, min_wait |-> 0, max_wait |-> 0]
    /\ rplan = <<>>
    /\ rattempt = 0
    /\ rcalls = 0
    /\ routcome = NoOutcome
    /\ revents = <<>>
    /\ rresult = NoOutcome

\* lines 113-117: the empty list returns at once, otherwise the topic is
\* embedded (one _embed call)
MatchEntry ==
    /\ mpc = "entry"
    /\ IF skills = <<>>
       THEN /\ mpc' = "done"
            /\ mresult' = <<>>
            /\ UNCHANGED <<embedCalls, embedTexts, mattempt>>
       ELSE /\ mpc' = "embed_topic"
            /\ embedCalls' = embedCalls + 1
            /\ embedTexts' = Append(embedTexts, <<topic>>)
            /\ mattempt' = 1
            /\ UNCHANGED mresult
    /\ UNCHANGED <<topic, skills, top_k, topic_embedding, midx, matches,
                   merror, nonMatch>>

\* an attempt of _embed([topic]) that returns
EmbedTopicOk ==
    /\ mpc = "embed_topic"
    /\ \E v \in TopicVecs : topic_embedding' = v
    /\ mpc' = "score"
    /\ midx' = 1
    /\ matches' = <<>>
    /\ UNCHANGED <<topic, skills, top_k, mresult, mattempt, embedCalls,
                   embedTexts, merror, nonMatch>>

\* an attempt of _embed that raises (lines 51-52): tenacity retries until
\* the attempt count is reached, then re-raises
EmbedFail ==
    /\ mpc \in {"embed_topic", "embed_domains"}
    /\ IF StopAfterAttempt(mattempt, EmbedMaxRetries)
       THEN mpc' = "raised" /\ merror' = "EmbeddingError" /\ UNCHANGED mattempt
       ELSE mattempt' = mattempt + 1 /\ UNCHANGED <<mpc, merror>>
    /\ UNCHANGED <<topic, skills, top_k, topic_embedding, midx, matches,
                   mresult, embedCalls, embedTexts, nonMatch>>

\* lines 121-131 for a scored skill
Scored(skill, embs) ==
    LET out == compute_score(topic, topic_embedding, skill, embs)
    IN  /\ UNCHANGED nonMatch
        /\ IF out.exc # "none"
           THEN mpc' = "raised" /\ merror' = out.exc /\ UNCHANGED <<midx, matches>>
           ELSE /\ mpc' = "score"
                /\ UNCHANGED merror
                /\ midx' = midx + 1
                /\ matches' = IF Qualifies(out.score, skill)
                              THEN Append(matches, SkillMatch(skill, midx, out))
                              ELSE matches

\* one iteration of the for-loop for a skill without domains: no _embed call
ScoreSkillNoDomains ==
    /\ mpc = "score"
    /\ midx <= Len(skills)
    /\ skills[midx].domains = <<>>
    /\ Scored(skills[midx], <<>>)
    /\ UNCHANGED <<topic, skills, top_k, topic_embedding, mresult, mattempt,
                   embedCalls, embedTexts>>

\* a variant that asks for the embedding of the skill's first domain only
DomainsRequestFirst(skill) == <<skill.domains[1]>>

\* line 75: the argument of the _embed call is the whole domain list
DomainsRequest(skill) == skill.domains

\* line 75: a skill with domains issues one _embed call for all of them
EmbedDomainsCall ==
    /\ mpc = "score"
    /\ midx <= Len(skills)
    /\ skills[midx].domains # <<>>
    /\ mpc' = "embed_domains"
    /\ embedCalls' = embedCalls + 1
    /\ embedTexts' = Append(embedTexts, DomainsRequest(skills[midx]))
    /\ mattempt' = 1
    /\ UNCHANGED <<topic, skills, top_k, topic_embedding, midx, matches,
                   mresult, merror, nonMatch>>

\* the _embed call returns one vector per domain; the skill is scored
EmbedDomainsOk ==
    /\ mpc = "embed_domains"
    /\ \E embs \in [1..Len(skills[midx].domains) -> Vecs] :
           Scored(skills[midx], embs)
    /\ UNCHANGED <<topic, skills, top_k, topic_embedding, mresult, mattempt,
                   embedCalls, embedTexts>>

\* lines 133-134: after the loop
MatchFinish ==
    /\ mpc = "score"
    /\ midx > Len(skills)
    /\ mresult' = MatchReturn(matches, top_k)
    /\ mpc' = "done"
    /\ UNCHANGED <<topic, skills, top_k, topic_embedding, midx, matches,
                   mattempt, embedCalls, embedTexts, merror, nonMatch>>

MatchNext ==
    \/ MatchEntry
    \/ EmbedTopicOk
    \/ EmbedFail
    \/ ScoreSkillNoDomains
    \/ EmbedDomainsCall
    \/ EmbedDomainsOk
    \/ MatchFinish

\* a call match(topic, skills) on a matcher with the configured top_k
InitMatch ==
    /\ mpc = "entry"
    /\ topic \in Topics
    /\ skills \in SeqsUpTo(SkillPool, MaxSkills)
    /\ top_k \in TopKs
    /\ topic_embedding = NoVec
    /\ midx = 0
    /\ matches = <<>>
    /\ mresult = <<>>
    /\ mattempt = 0
    /\ embedCalls = 0
    /\ embedTexts = <<>>
    /\ merror = "none"
    /\ cs = NoScoreCall
    /\ RetryIdle
    /\ RunIdle
    /\ CallIdle

SpecMatch == InitMatch /\ [][MatchNext]_vars

-----------------------------------------------------------------------------
(* _compute_score on its own: every topic, topic embedding, skill and      *)
(* _embed response of the model                                            *)

MatchIdle ==
    /\ mpc = "idle"
    /\ topic = <<>>
    /\ skills = <<>>
    /\ top_k = 0
    /\ topic_embedding = NoVec
    /\ midx = 0
    /\ matches = <<>>
    /\ mresult = <<>>
    /\ mattempt = 0
    /\ embedCalls = 0
    /\ embedTexts = <<>>
    /\ merror = "none"

InitScore ==
    /\ MatchIdle
    /\ RetryIdle
    /\ RunIdle
    /\ CallIdle
    /\ \E t \in Topics, tvec \in Vecs, skill \in SkillPool :
         \E embs \in [1..Len(skill.domains) -> Vecs] :
             cs = [pc |-> "call", topic |-> t, topic_embedding |-> tvec,
                   skill |-> skill, embs |-> embs]

ComputeScore ==
    /\ cs.pc = "call"
    /\ cs' = [cs EXCEPT !.pc = "returned"] @@
             [out |-> compute_score(cs.topic, cs.topic_embedding, cs.skill,
                                    cs.embs)]
    /\ UNCHANGED nonScore

SpecScore == InitScore /\ [][ComputeScore]_vars

-----------------------------------------------------------------------------
(* _extract_json (topic_agent.py 248-269), character by character *)

IsSpace(c) == c \in {" ", "\n", "\t"}

RECURSIVE LStrip(_)
LStrip(s) == IF s # <<>> /\ IsSpace(Head(s)) THEN LStrip(Tail(s)) ELSE s

RECURSIVE RStrip(_)
RStrip(s) ==
    IF s # <<>> /\ IsSpace(s[Len(s)]) THEN RStrip(SubSeq(s, 1, Len(s) - 1))
    ELSE s

\* str.strip()
Strip(s) == RStrip(LStrip(s))

\* the fence marker: three backquotes, written "~" in the texts of the model
Fence == <<"~", "~", "~">>

\* str.startswith
StartsWith(s, prefix) ==
    Len(s) >= Len(prefix) /\ SubSeq(s, 1, Len(prefix)) = prefix

\* str.split("\n"): the list of lines, never empty
RECURSIVE SplitLines(_, _, _)
SplitLines(s, i, cur) ==
    IF i > Len(s) THEN <<cur>>
    ELSE IF s[i] = "\n" THEN <<cur>> \o SplitLines(s, i + 1, <<>>)
    ELSE SplitLines(s, i + 1, Append(cur, s[i]))

\* "\n".join(lines)
RECURSIVE JoinLines(_)
JoinLines(lines) ==
    IF lines = <<>> THEN <<>>
    ELSE IF Len(lines) = 1 THEN lines[1]
    ELSE lines[1] \o <<"\n">> \o JoinLines(Tail(lines))

\* str.find / str.rfind, 0 for -1 of Python (positions count from 1)
Find(s, c) ==
    IF c \in Range(s) THEN CHOOSE i \in 1..Len(s) :
                               s[i] = c /\ \A j \in 1..(i - 1) : s[j] # c
    ELSE 0

RFind(s, c) ==
    IF c \in Range(s) THEN CHOOSE i \in 1..Len(s) :
                               s[i] = c /\ \A j \in (i + 1)..Len(s) : s[j] # c
    ELSE 0

\* lines 254-261
StripFences(text) ==
    IF StartsWith(text, Fence)
    THEN LET lines == SplitLines(text, 1, <<>>)
             l1 == IF StartsWith(lines[1], Fence) THEN Tail(lines) ELSE lines
             l2 == IF l1 # <<>> /\ Strip(l1[Len(l1)]) = Fence
                   THEN SubSeq(l1, 1, Len(l1) - 1) ELSE l1
         IN  JoinLines(l2)
    ELSE text

\* a variant that ends the slice at the first "]" instead of the last
extract_json_first_close(text0) ==
    LET text == StripFences(Strip(text0))
        start == Find(text, "[")
        end == Find(text, "]")
    IN  IF start # 0 /\ end # 0 /\ end > start
        THEN SubSeq(text, start, end)
        ELSE text

\* _extract_json(text)
extract_json(text0) ==
    LET text == StripFences(Strip(text0))
        start == Find(text, "[")
        end == RFind(text, "]")
    IN  IF start # 0 /\ end # 0 /\ end > start
        THEN SubSeq(text, start, end)
        ELSE text

-----------------------------------------------------------------------------
(* json.loads on the texts of the model.  A JSON document of the model is  *)
(* an atom or a bracketed, comma-separated list of documents; an atom is   *)
(* one character that stands for a JSON literal without brackets.          *)

JDict(d) == [t |-> "dict", d |-> d]
JInt(n) == [t |-> "int", n |-> n]
JList(items) == [t |-> "list", items |-> items]

Concern(name, importance) ==
    JDict([concern |-> name, importance |-> importance])

\* the literals the atoms stand for
Atoms == {"P", "Q", "C", "D", "E", "O", "1"}

JsonAtom(c) ==
    CASE c = "P" -> JDict([sub_topic |-> "s1", query |-> "q1"])
      [] c = "Q" -> JDict([sub_topic |-> "s2", query |-> "q2"])
      [] c = "C" -> Concern("c", 5)
      [] c = "D" -> Concern("d", 8)
      [] c = "E" -> Concern("e", 5)
      [] c = "O" -> JDict([note |-> "n"])
      [] c = "1" -> JInt(1)

JsonError == [t |-> "JSONDecodeError"]
RecursionError == [t |-> "RecursionError"]

\* json.loads raised instead of returning a value
IsJsonExc(v) == v.t \in {"JSONDecodeError", "RecursionError"}

\* the nesting depth of arrays the decoder accepts; one level more exhausts
\* the interpreter stack and raises RecursionError
MaxNesting == 2

\* a text nested one level deeper than the decoder accepts
DeepText == [i \in 1..(MaxNesting + 1) |-> "["]

ScanFail(e) == [v |-> e, next |-> 0]

\* the whitespace the decoder skips between tokens
RECURSIVE SkipWs(_, _)
SkipWs(s, i) ==
    IF i <= Len(s) /\ IsSpace(s[i]) THEN SkipWs(s, i + 1) ELSE i

\* scan_once at position i: an atom, or an array whose elements are scanned
\* in turn; `depth` counts the arrays that are open
RECURSIVE ScanOnce(_, _, _)
RECURSIVE ScanArray(_, _, _, _)
ScanOnce(s, i, depth) ==
    IF i > Len(s) THEN ScanFail(JsonError)
    ELSE IF s[i] \in Atoms THEN [v |-> JsonAtom(s[i]), next |-> i + 1]
    ELSE IF s[i] = "["
    THEN IF depth >= MaxNesting THEN ScanFail(RecursionError)
         ELSE LET j == SkipWs(s, i + 1)
              IN  IF j <= Len(s) /\ s[j] = "]"
                  THEN [v |-> JList(<<>>), next |-> j + 1]
                  ELSE ScanArray(s, j, depth + 1, <<>>)
    ELSE ScanFail(JsonError)

ScanArray(s, i, depth, acc) ==
    LET r == ScanOnce(s, i, depth)
    IN  IF IsJsonExc(r.v) THEN r
        ELSE LET j == SkipWs(s, r.next)
             IN  IF j > Len(s) THEN ScanFail(JsonError)
                 ELSE IF s[j] = "]"
                 THEN [v |-> JList(Append(acc, r.v)), next |-> j + 1]
                 ELSE IF s[j] = ","
                 THEN ScanArray(s, SkipWs(s, j + 1), depth, Append(acc, r.v))
                 ELSE ScanFail(JsonError)

\* json.loads(s): one document with optional whitespace around it; what
\* follows the document is "Extra data"
JsonLoads(s) ==
    LET r == ScanOnce(s, SkipWs(s, 1), 0)
    IN  IF IsJsonExc(r.v) THEN r.v
        ELSE IF SkipWs(s, r.next) # Len(s) + 1 THEN JsonError
        ELSE r.v

-----------------------------------------------------------------------------
(* The retry decorators (retry.py 55-120) and the notification callback    *)
(* (retry.py 125-144).  retry_llm_call, retry_embedding_call and           *)
(* retry_api_call build the same tenacity controller and differ only in    *)
(* the operation name handed to _log_retry.                                *)

MaxAttempts == 3           \* largest max_retries of the model

DEFAULT_MULTIPLIER == 2
MsgLimit == 200            \* str(exception)[:200]

\* what one invocation of the wrapped function does
Ok(v) == [kind |-> "ok", value |-> v]
Raise(type, base, msg) == [kind |-> "exc", type |-> type, base |-> base, msg |-> msg]

\* ValueError and LLMError derive from Exception; KeyboardInterrupt derives
\* from BaseException only
Outcomes ==
    { Ok("recovered"),
      Raise("ValueError", "Exception", <<"p", "e">>),
      Raise("LLMError", "Exception", <<"e", "m", "p", "t", "y">>),
      Raise("KeyboardInterrupt", "BaseException", <<>>) }

\* (min_wait, max_wait) of the decorated functions (topic_agent.py 42) and
\* of the tests (test_retry.py 61)
WaitBounds == { <<2, 30>>, <<0, 0>>, <<3, 30>>, <<2, 3>> }

\* retry=retry_if_exception_type((Exception,)): retry only when the attempt
\* raised an instance of Exception
RetryIfExceptionType(outcome) ==
    outcome.kind = "exc" /\ outcome.base = "Exception"

Max(a, b) == IF a >= b THEN a ELSE b

RECURSIVE Pow2(_)
Pow2(n) == IF n <= 0 THEN 1 ELSE 2 * Pow2(n - 1)

\* a variant whose exponent is the attempt number itself
WaitExponentialNextAttempt(attempt, min_wait, max_wait) ==
    Max(Max(0, min_wait), Min(DEFAULT_MULTIPLIER * Pow2(attempt), max_wait))

\* wait_exponential(multiplier=DEFAULT_MULTIPLIER, min=min_wait, max=max_wait)
\* after failed attempt number `attempt`
WaitExponential(attempt, min_wait, max_wait) ==
    Max(Max(0, min_wait), Min(DEFAULT_MULTIPLIER * Pow2(attempt - 1), max_wait))

\* the callback of _log_retry, called with the attempt number shifted by one
LogRetryNextAttempt(operation, attempt, outcome, wait, calls) ==
    [operation |-> operation, attempt |-> attempt + 1,
     exc_type |-> outcome.type, exc_msg |-> Take(outcome.msg, MsgLimit),
     wait |-> wait, after_call |-> calls]

\* the callback of _log_retry (lines 127-143): the event it prints and logs;
\* after_call records how many invocations preceded it
LogRetry(operation, attempt, outcome, wait, calls) ==
    [operation |-> operation, attempt |-> attempt,
     exc_type |-> outcome.type, exc_msg |-> Take(outcome.msg, MsgLimit),
     wait |-> wait, after_call |-> calls]

\* wrapper(*args, **kwargs): one invocation of the wrapped function
RetryAttempt ==
    /\ rpc = "attempt"
    /\ rcalls' = rcalls + 1
    /\ routcome' = rplan[rattempt]
    /\ rpc' = "decide"
    /\ UNCHANGED <<rconf, rplan, rattempt, revents, rresult, nonRetry>>

\* the attempt returned, or raised what is not retried: the caller gets it
RetryPassThrough ==
    /\ rpc = "decide"
    /\ ~RetryIfExceptionType(routcome)
    /\ rresult' = routcome
    /\ rpc' = IF routcome.kind = "ok" THEN "returned" ELSE "raised"
    /\ UNCHANGED <<rconf, rplan, rattempt, rcalls, routcome, revents, nonRetry>>

\* stop=stop_after_attempt(max_retries), reraise=True: the exception of the
\* last attempt is raised to the caller
RetryExhausted ==
    /\ rpc = "decide"
    /\ RetryIfExceptionType(routcome)
    /\ StopAfterAttempt(rattempt, rconf.max_retries)
    /\ rresult' = routcome
    /\ rpc' = "raised"
    /\ UNCHANGED <<rconf, rplan, rattempt, rcalls, routcome, revents, nonRetry>>

\* another attempt follows: the wait is computed and before_sleep runs
RetryBeforeSleep ==
    /\ rpc = "decide"
    /\ RetryIfExceptionType(routcome)
    /\ ~StopAfterAttempt(rattempt, rconf.max_retries)
    /\ revents' = Append(revents,
           LogRetry(rconf.operation, rattempt, routcome,
                    WaitExponential(rattempt, rconf.min_wait, rconf.max_wait),
                    rcalls))
    /\ rpc' = "sleep"
    /\ UNCHANGED <<rconf, rplan, rattempt, rcalls, routcome, rresult, nonRetry>>

\* the sleep ends: prepare_for_next_attempt
RetrySleep ==
    /\ rpc = "sleep"
    /\ rattempt' = rattempt + 1
    /\ routcome' = NoOutcome
    /\ rpc' = "attempt"
    /\ UNCHANGED <<rconf, rplan, rcalls, revents, rresult, nonRetry>>

RetryNext ==
    \/ RetryAttempt
    \/ RetryPassThrough
    \/ RetryExhausted
    \/ RetryBeforeSleep
    \/ RetrySleep

\* a call of a function decorated with max_retries in 1..MaxAttempts
InitRetry ==
    /\ MatchIdle
    /\ cs = NoScoreCall
    /\ RunIdle
    /\ CallIdle
    /\ rpc = "attempt"
    /\ \E n \in 1..MaxAttempts, w \in WaitBounds :
           rconf = [operation |-> "LLM", max_retries |-> n,
                    min_wait |-> w[1], max_wait |-> w[2]]
    /\ rplan \in [1..MaxAttempts + 1 -> Outcomes]
    /\ rattempt = 1
    /\ rcalls = 0
    /\ routcome = NoOutcome
    /\ revents = <<>>
    /\ rresult = NoOutcome

SpecRetry == InitRetry /\ [][RetryNext]_vars

-----------------------------------------------------------------------------
(* TopicAgent (topic_agent.py).  A generate call is TopicAgent._llm_call    *)
(* under retry_llm_call(max_retries=3); a knowledge-store call is          *)
(* query_knowledge under retry_api_call(max_retries=3).                    *)

LlmMaxRetries == 3         \* @retry_llm_call(max_retries=3, ...)
KbMaxRetries == 3          \* @retry_api_call(..., max_retries=3, ...)
DefaultTopK == 3           \* Config.skill_match_top_k
MaxLoaded == 1             \* most skills the skills directory of a run holds
ReasoningLimit == 500      \* response[:500]

Stages == <<"Decompose", "MatchSkills", "Retrieve", "SkillAnalysis",
            "IdentifyConcerns", "GenerateOutline">>

\* the response texts of the generate calls of the model
DecomposeResponses ==
    { <<"[", "P", ",", "Q", "]">>,
      Fence \o <<"\n", "[", "P", "]", "\n">> \o Fence,
      <<"h", "i">>,
      <<"[", "1", "]">>,
      <<"1">>,
      <<"[", "]">>,
      DeepText }

AnalysisResponses == { <<"a">> }

ConcernResponses ==
    { <<"[", "C", ",", "D", ",", "E", "]">>,
      <<"n", "o">>,
      <<"[", "]">>,
      <<"O">>,
      <<"[", "1", "]">> }

OutlineResponses == { <<"#">> }

\* the texts query_knowledge may return: a result, whitespace only, nothing
KbTexts == { <<"r">>, <<" ">>, <<>> }

\* the topics the runs of the model are about
RunTopics == { <<"A", "b">> }

\* the values of the search_mode argument the model runs with
SearchModes == { "hybrid", "local" }

\* dict.get(key, default)
DictGet(d, key, default) == IF key \in DOMAIN d THEN d[key] ELSE default

\* _decompose_topic after its generate call returned `response`
\* (lines 125-132): whatever json.loads decoded, or the fallback pair; an
\* exception that is no ValueError leaves the try
decompose_topic(t, response) ==
    LET v == JsonLoads(extract_json(response))
    IN  IF v.t = "JSONDecodeError"
        THEN [exc |-> "none",
              value |-> JList(<< JDict([sub_topic |-> t, query |-> t]) >>)]
        ELSE IF IsJsonExc(v) THEN [exc |-> v.t, value |-> JList(<<>>)]
        ELSE [exc |-> "none", value |-> v]

\* len(x) is defined
HasLen(v) == v.t \in {"list", "dict", "str"}

\* what `for st in sub_topics` iterates over: the elements of a list, the
\* keys (strings) of a dict
IterItems(v) ==
    IF v.t = "list" THEN v.items
    ELSE IF v.t = "dict" /\ DOMAIN v.d # {} THEN << [t |-> "str"] >>
    ELSE <<>>

\* line 147 and line 151
QueryOf(st) == DictGet(st.d, "query", DictGet(st.d, "sub_topic", ""))
SectionOf(st, result) ==
    [kind |-> "section", label |-> DictGet(st.d, "sub_topic", QueryOf(st)),
     text |-> result]

Placeholder == << [kind |-> "placeholder"] >>

\* a variant that joins the results without the placeholder
JoinResultsNoPlaceholder(rs) == rs

\* line 155
JoinResults(rs) == IF rs # <<>> THEN rs ELSE Placeholder

\* line 96
WithSkillAnalysis(context, analysis) ==
    context \o << [kind |-> "separator"], [kind |-> "analysis", text |-> analysis] >>

\* line 186: concerns.sort(key=lambda c: c.get("importance", 0), reverse=True)
Importance(c) == DictGet(c.d, "importance", 0)

\* a variant that puts a concern before the concerns of equal importance
InsertByImportanceUnstable(sorted, c) ==
    LET pos == Cardinality({i \in 1..Len(sorted) :
                               Importance(sorted[i]) > Importance(c)})
    IN  SubSeq(sorted, 1, pos) \o <<c>> \o SubSeq(sorted, pos + 1, Len(sorted))

InsertByImportance(sorted, c) ==
    LET pos == Cardinality({i \in 1..Len(sorted) :
                               Importance(sorted[i]) >= Importance(c)})
    IN  SubSeq(sorted, 1, pos) \o <<c>> \o SubSeq(sorted, pos + 1, Len(sorted))

RECURSIVE SortConcerns(_, _, _)
SortConcerns(cs0, i, sorted) ==
    IF i > Len(cs0) THEN sorted
    ELSE SortConcerns(cs0, i + 1, InsertByImportance(sorted, cs0[i]))

GeneralAnalysis(response) ==
    JDict([concern |-> "General Analysis", importance |-> 5,
           reasoning |-> Take(response, ReasoningLimit), evidence |-> <<>>,
           logic_chain |-> ""])

\* _identify_concerns after its generate call returned `response`
\* (lines 182-191): only JSONDecodeError / ValueError are caught
identify_concerns(response) ==
    LET v == JsonLoads(extract_json(response))
    IN  IF v.t = "JSONDecodeError"
        THEN [exc |-> "none", value |-> << GeneralAnalysis(response) >>]
        ELSE IF IsJsonExc(v) THEN [exc |-> v.t, value |-> <<>>]
        ELSE IF v.t # "list"
        THEN [exc |-> "AttributeError", value |-> <<>>]
        ELSE IF \E i \in 1..Len(v.items) : v.items[i].t # "dict"
        THEN [exc |-> "AttributeError", value |-> <<>>]
        ELSE [exc |-> "none", value |-> SortConcerns(v.items, 1, <<>>)]

\* f"{score:.2f}": the score in hundredths
Fmt2(score) == (score * 100 + (ScoreScale \div 2)) \div ScoreScale

NoLine == <<>>

\* format_activated_skills_header (executor.py 90-98)
format_activated_skills_header(ms) ==
    IF ms = <<>> THEN NoLine
    ELSE << [kind |-> "skills",
             info |-> [i \in 1..Len(ms) |->
                          [display_name |-> ms[i].skill.display_name,
                           score |-> Fmt2(ms[i].score)]]] >>

\* _build_header (lines 219-229)
build_header(t, ms) ==
    LET lines == << [kind |-> "title", topic |-> t], [kind |-> "blank"],
                    [kind |-> "note"] >>
        skills_line == format_activated_skills_header(ms)
    IN  IF skills_line # NoLine THEN lines \o skills_line ELSE lines

\* line 93: if skill_matches
RunsSkillAnalysis(ms) == ms # <<>>

\* a variant that retrieves before it matches
StageAfterSwapped(stage, ms) ==
    CASE stage = "Decompose" -> "Retrieve"
      [] stage = "Retrieve" ->
             IF "MatchSkills" \in Range(started)
             THEN (IF RunsSkillAnalysis(ms) THEN "SkillAnalysis"
                   ELSE "IdentifyConcerns")
             ELSE "MatchSkills"
      [] stage = "MatchSkills" ->
             IF RunsSkillAnalysis(ms) THEN "SkillAnalysis"
             ELSE "IdentifyConcerns"
      [] stage = "SkillAnalysis" -> "IdentifyConcerns"
      [] stage = "IdentifyConcerns" -> "GenerateOutline"
      [] OTHER -> "Save"

\* the order of the calls in run (lines 72-108)
StageAfter(stage, ms) ==
    CASE stage = "Decompose" -> "MatchSkills"
      [] stage = "MatchSkills" -> "Retrieve"
      [] stage = "Retrieve" ->
             IF RunsSkillAnalysis(ms) THEN "SkillAnalysis"
             ELSE "IdentifyConcerns"
      [] stage = "SkillAnalysis" -> "IdentifyConcerns"
      [] stage = "IdentifyConcerns" -> "GenerateOutline"
      [] OTHER -> "Save"

LlmStages == {"Decompose", "SkillAnalysis", "IdentifyConcerns", "GenerateOutline"}

LastReturned == IF returned = <<>> THEN "none" ELSE returned[Len(returned)]

\* run is between two stages: the last started stage has returned
Between == /\ pc = "between"
           /\ Len(started) = Len(returned)

\* line 72: run calls _decompose_topic, which issues its generate call
StartDecompose ==
    /\ pc = "entry"
    /\ pc' = "Decompose"
    /\ started' = Append(started, "Decompose")
    /\ pattempt' = 1
    /\ gcalls' = Append(gcalls, "Decompose")
    /\ UNCHANGED <<sub_topics, skill_matches, ridx, results,
                   retrieved_context, concerns, outline, full_outline,
                   perror, returned, failed, mvars, search_mode, qlog,
                   dresponse, nonRun>>

\* an attempt of _llm_call fails: the service raised or returned no text
\* (lines 54-60); tenacity retries, then re-raises the LLMError
LlmFail ==
    /\ pc \in LlmStages
    /\ IF StopAfterAttempt(pattempt, LlmMaxRetries)
       THEN /\ perror' = "LLMError"
            /\ failed' = pc
            /\ pc' = "raised"
            /\ UNCHANGED pattempt
       ELSE /\ pattempt' = pattempt + 1
            /\ UNCHANGED <<pc, perror, failed>>
    /\ UNCHANGED <<sub_topics, skill_matches, ridx, results,
                   retrieved_context, concerns, outline, full_outline,
                   started, returned, mvars, search_mode, qlog, gcalls,
                   dresponse, nonRun>>

\* the generate call of _decompose_topic returns; lines 125-132
DecomposeReturn ==
    /\ pc = "Decompose"
    /\ \E response \in DecomposeResponses :
           LET r == decompose_topic(topic, response)
           IN  /\ dresponse' = response
               /\ IF r.exc = "none"
                  THEN /\ sub_topics' = r.value
                       /\ returned' = Append(returned, "Decompose")
                       /\ pc' = "between"
                       /\ UNCHANGED <<perror, failed>>
                  ELSE /\ perror' = r.exc
                       /\ failed' = "Decompose"
                       /\ pc' = "raised"
                       /\ UNCHANGED <<sub_topics, returned>>
    /\ UNCHANGED <<skill_matches, ridx, results, retrieved_context, concerns,
                   outline, full_outline, pattempt, started, mvars,
                   search_mode, qlog, gcalls, nonRun>>

\* line 73: len(sub_topics) of a value without a length raises TypeError
DecomposedNoLen ==
    /\ Between /\ LastReturned = "Decompose"
    /\ ~HasLen(sub_topics)
    /\ perror' = "TypeError"
    /\ failed' = "run"
    /\ pc' = "raised"
    /\ UNCHANGED <<sub_topics, skill_matches, ridx, results,
                   retrieved_context, concerns, outline, full_outline,
                   pattempt, started, returned, mvars, search_mode, qlog, gcalls,
                   dresponse, nonRun>>

\* line 78 and _match_skills (lines 134-141): the skills are loaded and,
\* unless there is none, handed to SkillMatcher.match
StartMatchSkills ==
    /\ Between /\ StageAfter(LastReturned, skill_matches) = "MatchSkills"
    /\ LastReturned = "Decompose" => HasLen(sub_topics)
    /\ started' = Append(started, "MatchSkills")
    /\ pc' = "MatchSkills"
    /\ mpc' = IF skills = <<>> THEN "idle" ELSE "entry"
    /\ UNCHANGED <<sub_topics, skill_matches, ridx, results,
                   retrieved_context, concerns, outline, full_outline,
                   pattempt, perror, returned, failed, topic, skills, top_k,
                   topic_embedding, midx, matches, mresult, mattempt,
                   embedCalls, embedTexts, merror, search_mode, qlog, gcalls,
                   dresponse, nonRun>>

\* _match_skills returns: [] when no skill is loaded, else what match returned
MatchSkillsReturn ==
    /\ pc = "MatchSkills"
    /\ \/ skills = <<>> /\ mpc = "idle" /\ skill_matches' = <<>>
       \/ mpc = "done" /\ skill_matches' = mresult
    /\ returned' = Append(returned, "MatchSkills")
    /\ pc' = "between"
    /\ UNCHANGED <<sub_topics, ridx, results, retrieved_context, concerns,
                   outline, full_outline, pattempt, perror, started, failed,
                   mvars, search_mode, qlog, gcalls,
                   dresponse, nonRun>>

\* an _embed call of match exhausted its attempts: EmbeddingError
MatchSkillsRaise ==
    /\ pc = "MatchSkills"
    /\ mpc = "raised"
    /\ perror' = merror
    /\ failed' = "MatchSkills"
    /\ pc' = "raised"
    /\ UNCHANGED <<sub_topics, skill_matches, ridx, results,
                   retrieved_context, concerns, outline, full_outline,
                   pattempt, started, returned, mvars, search_mode, qlog, gcalls,
                   dresponse, nonRun>>

\* line 88: run calls _retrieve_knowledge
StartRetrieve ==
    /\ Between /\ StageAfter(LastReturned, skill_matches) = "Retrieve"
    /\ LastReturned = "Decompose" => HasLen(sub_topics)
    /\ started' = Append(started, "Retrieve")
    /\ pc' = "Retrieve"
    /\ results' = <<>>
    /\ ridx' = 1
    /\ pattempt' = 1
    /\ UNCHANGED <<sub_topics, skill_matches, retrieved_context, concerns,
                   outline, full_outline, perror, returned, failed, mvars,
                   search_mode, qlog, gcalls,
                   dresponse, nonRun>>

\* line 147 on an element that is no dict: AttributeError, outside the try
RetrieveBadItem ==
    /\ pc = "Retrieve"
    /\ ridx <= Len(IterItems(sub_topics))
    /\ IterItems(sub_topics)[ridx].t # "dict"
    /\ perror' = "AttributeError"
    /\ failed' = "Retrieve"
    /\ pc' = "raised"
    /\ UNCHANGED <<sub_topics, skill_matches, ridx, results,
                   retrieved_context, concerns, outline, full_outline,
                   pattempt, started, returned, mvars, search_mode, qlog, gcalls,
                   dresponse, nonRun>>

\* the query_knowledge call of the element at ridx has ended
QueryEnded(out) ==
    [idx |-> ridx, query |-> QueryOf(IterItems(sub_topics)[ridx]),
     mode |-> search_mode, out |-> out]

\* lines 149-151: query_knowledge returns; a non-blank result is appended
QueryReturn ==
    /\ pc = "Retrieve"
    /\ ridx <= Len(IterItems(sub_topics))
    /\ IterItems(sub_topics)[ridx].t = "dict"
    /\ \E result \in KbTexts :
           /\ results' = IF result # <<>> /\ Strip(result) # <<>>
                         THEN Append(results,
                                     SectionOf(IterItems(sub_topics)[ridx], result))
                         ELSE results
           /\ qlog' = Append(qlog, QueryEnded([kind |-> "ok", text |-> result]))
    /\ ridx' = ridx + 1
    /\ pattempt' = 1
    /\ UNCHANGED <<pc, sub_topics, skill_matches, retrieved_context,
                   concerns, outline, full_outline, perror, started,
                   returned, failed, mvars, search_mode, gcalls,
                   dresponse, nonRun>>

\* an attempt of query_knowledge raises: tenacity retries, then re-raises
\* and lines 152-153 catch the exception and go on with the next element
QueryFail ==
    /\ pc = "Retrieve"
    /\ ridx <= Len(IterItems(sub_topics))
    /\ IterItems(sub_topics)[ridx].t = "dict"
    /\ IF StopAfterAttempt(pattempt, KbMaxRetries)
       THEN /\ ridx' = ridx + 1
            /\ pattempt' = 1
            /\ qlog' = Append(qlog, QueryEnded([kind |-> "exc"]))
       ELSE /\ pattempt' = pattempt + 1
            /\ UNCHANGED <<ridx, qlog>>
    /\ UNCHANGED <<pc, sub_topics, skill_matches, results, retrieved_context,
                   concerns, outline, full_outline, perror, started,
                   returned, failed, mvars, search_mode, gcalls,
                   dresponse, nonRun>>

\* line 155: _retrieve_knowledge returns
RetrieveReturn ==
    /\ pc = "Retrieve"
    /\ ridx > Len(IterItems(sub_topics))
    /\ retrieved_context' = JoinResults(results)
    /\ returned' = Append(returned, "Retrieve")
    /\ pc' = "between"
    /\ UNCHANGED <<sub_topics, skill_matches, ridx, results, concerns,
                   outline, full_outline, pattempt, perror, started, failed,
                   mvars, search_mode, qlog, gcalls,
                   dresponse, nonRun>>

\* lines 93-95: with matches, run calls _apply_skill_analysis
StartSkillAnalysis ==
    /\ Between /\ StageAfter(LastReturned, skill_matches) = "SkillAnalysis"
    /\ started' = Append(started, "SkillAnalysis")
    /\ pc' = "SkillAnalysis"
    /\ pattempt' = 1
    /\ gcalls' = Append(gcalls, "SkillAnalysis")
    /\ UNCHANGED <<sub_topics, skill_matches, ridx, results,
                   retrieved_context, concerns, outline, full_outline,
                   perror, returned, failed, mvars, search_mode, qlog,
                   dresponse, nonRun>>

\* lines 95-96: the analysis is appended to the context
SkillAnalysisReturn ==
    /\ pc = "SkillAnalysis"
    /\ \E response \in AnalysisResponses :
           retrieved_context' = WithSkillAnalysis(retrieved_context, response)
    /\ returned' = Append(returned, "SkillAnalysis")
    /\ pc' = "between"
    /\ UNCHANGED <<sub_topics, skill_matches, ridx, results, concerns,
                   outline, full_outline, pattempt, perror, started, failed,
                   mvars, search_mode, qlog, gcalls,
                   dresponse, nonRun>>

\* line 102: run calls _identify_concerns
StartIdentifyConcerns ==
    /\ Between /\ StageAfter(LastReturned, skill_matches) = "IdentifyConcerns"
    /\ started' = Append(started, "IdentifyConcerns")
    /\ pc' = "IdentifyConcerns"
    /\ pattempt' = 1
    /\ gcalls' = Append(gcalls, "IdentifyConcerns")
    /\ UNCHANGED <<sub_topics, skill_matches, ridx, results,
                   retrieved_context, concerns, outline, full_outline,
                   perror, returned, failed, mvars, search_mode, qlog,
                   dresponse, nonRun>>

\* the generate call of _identify_concerns returns; lines 182-191
IdentifyConcernsReturn ==
    /\ pc = "IdentifyConcerns"
    /\ \E response \in ConcernResponses :
           LET r == identify_concerns(response)
           IN  IF r.exc = "none"
               THEN /\ concerns' = r.value
                    /\ returned' = Append(returned, "IdentifyConcerns")
                    /\ pc' = "between"
                    /\ UNCHANGED <<perror, failed>>
               ELSE /\ perror' = r.exc
                    /\ failed' = "IdentifyConcerns"
                    /\ pc' = "raised"
                    /\ UNCHANGED <<concerns, returned>>
    /\ UNCHANGED <<sub_topics, skill_matches, ridx, results,
                   retrieved_context, outline, full_outline, pattempt,
                   started, mvars, search_mode, qlog, gcalls,
                   dresponse, nonRun>>

\* line 108: run calls _generate_outline
StartGenerateOutline ==
    /\ Between /\ StageAfter(LastReturned, skill_matches) = "GenerateOutline"
    /\ started' = Append(started, "GenerateOutline")
    /\ pc' = "GenerateOutline"
    /\ pattempt' = 1
    /\ gcalls' = Append(gcalls, "GenerateOutline")
    /\ UNCHANGED <<sub_topics, skill_matches, ridx, results,
                   retrieved_context, concerns, outline, full_outline,
                   perror, returned, failed, mvars, search_mode, qlog,
                   dresponse, nonRun>>

\* line 217: the outline is the response text
GenerateOutlineReturn ==
    /\ pc = "GenerateOutline"
    /\ \E response \in OutlineResponses : outline' = response
    /\ returned' = Append(returned, "GenerateOutline")
    /\ pc' = "between"
    /\ UNCHANGED <<sub_topics, skill_matches, ridx, results,
                   retrieved_context, concerns, full_outline, pattempt,
                   perror, started, failed, mvars, search_mode, qlog, gcalls,
                   dresponse, nonRun>>

\* lines 113-118: header, full outline, save
SaveOutline ==
    /\ Between /\ StageAfter(LastReturned, skill_matches) = "Save"
    /\ full_outline' = [header |-> build_header(topic, skill_matches),
                        outline |-> outline]
    /\ pc' = "done"
    /\ UNCHANGED <<sub_topics, skill_matches, ridx, results,
                   retrieved_context, concerns, outline, pattempt, perror,
                   started, returned, failed, mvars, search_mode, qlog, gcalls,
                   dresponse, nonRun>>

Next ==
    \/ StartDecompose
    \/ LlmFail
    \/ DecomposeReturn
    \/ DecomposedNoLen
    \/ StartMatchSkills
    \/ MatchEntry
    \/ EmbedTopicOk
    \/ EmbedFail
    \/ ScoreSkillNoDomains
    \/ EmbedDomainsCall
    \/ EmbedDomainsOk
    \/ MatchFinish
    \/ MatchSkillsReturn
    \/ MatchSkillsRaise
    \/ StartRetrieve
    \/ RetrieveBadItem
    \/ QueryReturn
    \/ QueryFail
    \/ RetrieveReturn
    \/ StartSkillAnalysis
    \/ SkillAnalysisReturn
    \/ StartIdentifyConcerns
    \/ IdentifyConcernsReturn
    \/ StartGenerateOutline
    \/ GenerateOutlineReturn
    \/ SaveOutline

\* a call run(topic) of an agent whose skills directory holds `skills`
Init ==
    /\ pc = "entry"
    /\ sub_topics = JList(<<>>)
    /\ skill_matches = <<>>
    /\ ridx = 0
    /\ results = <<>>
    /\ retrieved_context = <<>>
    /\ concerns = <<>>
    /\ outline = <<>>
    /\ full_outline = [header |-> <<>>, outline |-> <<>>]
    /\ pattempt = 0
    /\ perror = "none"
    /\ started = <<>>
    /\ returned = <<>>
    /\ failed = "none"
    /\ mpc = "idle"
    /\ topic \in RunTopics
    /\ skills \in SeqsUpTo(SkillPool, MaxLoaded)
    /\ top_k = DefaultTopK
    /\ topic_embedding = NoVec
    /\ midx = 0
    /\ matches = <<>>
    /\ mresult = <<>>
    /\ mattempt = 0
    /\ embedCalls = 0
    /\ embedTexts = <<>>
    /\ merror = "none"
    /\ cs = NoScoreCall
    /\ RetryIdle
    /\ CallIdle
    /\ search_mode \in SearchModes
    /\ qlog = <<>>
    /\ gcalls = <<>>
    /\ dresponse = <<>>

Spec == Init /\ [][Next]_vars

\* a run in which every step that can be taken is taken in the end: every
\* external call returns or raises, and run goes on after it
SpecFair == Init /\ [][Next]_vars /\ WF_vars(Next)

-----------------------------------------------------------------------------
(* _extract_json on its own: a text is extracted, and the result is        *)
(* extracted again                                                         *)

MaxPieces == 5             \* most pieces a text of the model is made of

\* what the texts are made of: the fence marker, line break, blank, the two
\* brackets and an ordinary character
Pieces == { Fence, <<"\n">>, <<" ">>, <<"[">>, <<"]">>, <<"x">> }

RECURSIVE Concat(_)
Concat(ps) == IF ps = <<>> THEN <<>> ELSE Head(ps) \o Concat(Tail(ps))

Texts == { Concat(ps) : ps \in SeqsUpTo(Pieces, MaxPieces) }

InitExtract ==
    /\ MatchIdle
    /\ cs = NoScoreCall
    /\ RetryIdle
    /\ RunIdle
    /\ \E t \in Texts :
           fc = [fn |-> "extract_json", pc |-> "call", text |-> t,
                 once |-> <<>>, twice |-> <<>>]

\* _extract_json(text)
ExtractOnce ==
    /\ fc.fn = "extract_json" /\ fc.pc = "call"
    /\ fc' = [fc EXCEPT !.once = extract_json(fc.text), !.pc = "again"]
    /\ UNCHANGED nonCall

\* _extract_json of what the first call returned
ExtractTwice ==
    /\ fc.fn = "extract_json" /\ fc.pc = "again"
    /\ fc' = [fc EXCEPT !.twice = extract_json(fc.once), !.pc = "done"]
    /\ UNCHANGED nonCall

ExtractNext == ExtractOnce \/ ExtractTwice

SpecExtract == InitExtract /\ [][ExtractNext]_vars

-----------------------------------------------------------------------------
(* The prompt assembler (executor.py 7-87).  A text the functions build is *)
(* the sequence of the parts that "\n".join puts together; a part is a     *)
(* record that names the f-string and carries what it interpolates; the    *)
(* empty sequence is the empty string.                                     *)

MaxMatched == 3            \* most matches handed to the prompt assembler

\* a skill with the fields the prompt assembler reads
ExecSkill(display_name, description, steps, tools, sections, style) ==
    [display_name |-> display_name, description |-> description,
     steps |-> steps, tools |-> tools, sections |-> sections, style |-> style]

ThinkingStep(name, prompt) == [name |-> name, prompt |-> prompt]
SkillTool(name, description, output_format) ==
    [name |-> name, description |-> description, output_format |-> output_format]

ExecMatches ==
    { [skill |-> ExecSkill("one", <<"d">>,
                           << ThinkingStep("s1", <<"x", "{topic}">>) >>,
                           << SkillTool("t1", <<"m">>, <<"|">>) >>,
                           <<"A", "B">>, <<"s">>),
       score |-> 540],
      [skill |-> ExecSkill("two", <<>>, <<>>,
                           << SkillTool("t2", <<>>, <<>>) >>,
                           <<"B", "C">>, <<>>),
       score |-> 492],
      [skill |-> ExecSkill("three", <<"e">>,
                           << ThinkingStep("s3", <<"y">>) >>, <<>>,
                           <<"A", "A">>, <<"t">>),
       score |-> 360],
      [skill |-> ExecSkill("four", <<>>, <<>>, <<>>, <<>>, <<>>),
       score |-> 0] }

\* build_skill_system_prompt (lines 7-24)
RECURSIVE SystemPromptParts(_, _)
SystemPromptParts(ms, i) ==
    IF i > Len(ms) THEN <<>>
    ELSE << [kind |-> "skill", display_name |-> ms[i].skill.display_name,
             relevance |-> Fmt2(ms[i].score)],
            [kind |-> "text", text |-> ms[i].skill.description],
            [kind |-> "text", text |-> <<>>] >>
         \o SystemPromptParts(ms, i + 1)

build_skill_system_prompt(ms) ==
    IF ms = <<>> THEN <<>>
    ELSE << [kind |-> "title"] >> \o SystemPromptParts(ms, 1)

\* str.replace("{topic}", topic) on a prompt whose placeholder is one token
RECURSIVE ReplaceTopic(_, _)
ReplaceTopic(prompt, t) ==
    IF prompt = <<>> THEN <<>>
    ELSE (IF Head(prompt) = "{topic}" THEN t ELSE << Head(prompt) >>)
         \o ReplaceTopic(Tail(prompt), t)

RECURSIVE StepParts(_, _, _)
StepParts(steps, i, t) ==
    IF i > Len(steps) THEN <<>>
    ELSE << [kind |-> "step", name |-> steps[i].name],
            [kind |-> "text", text |-> ReplaceTopic(steps[i].prompt, t)],
            [kind |-> "text", text |-> <<>>] >>
         \o StepParts(steps, i + 1, t)

RECURSIVE StepsPromptParts(_, _, _)
StepsPromptParts(ms, i, t) ==
    IF i > Len(ms) THEN <<>>
    ELSE << [kind |-> "skill", display_name |-> ms[i].skill.display_name] >>
         \o StepParts(ms[i].skill.steps, 1, t)
         \o StepsPromptParts(ms, i + 1, t)

\* a variant without the guard of lines 32-33
build_skill_steps_prompt_unguarded(ms, t) ==
    << [kind |-> "title", topic |-> t], [kind |-> "instruction"] >>
    \o StepsPromptParts(ms, 1, t)

\* build_skill_steps_prompt (lines 27-49)
build_skill_steps_prompt(ms, t) ==
    IF ms = <<>> THEN <<>>
    ELSE << [kind |-> "title", topic |-> t], [kind |-> "instruction"] >>
         \o StepsPromptParts(ms, 1, t)

\* a variant of the inner loop that appends without looking
AppendNewAlways(all_sections, sections, i) == all_sections \o sections

\* lines 62-64: the sections not yet in all_sections are appended
RECURSIVE AppendNew(_, _, _)
AppendNew(all_sections, sections, i) ==
    IF i > Len(sections) THEN all_sections
    ELSE AppendNew(IF sections[i] \in Range(all_sections) THEN all_sections
                   ELSE Append(all_sections, sections[i]),
                   sections, i + 1)

\* " ".join(parts)
RECURSIVE JoinSpace(_)
JoinSpace(parts) ==
    IF parts = <<>> THEN <<>>
    ELSE IF Len(parts) = 1 THEN parts[1]
    ELSE parts[1] \o <<" ">> \o JoinSpace(Tail(parts))

\* lines 60-66: the loop over the matches
RECURSIVE MergeRequirements(_, _, _, _)
MergeRequirements(ms, i, all_sections, style_parts) ==
    IF i > Len(ms) THEN [sections |-> all_sections, style_parts |-> style_parts]
    ELSE MergeRequirements(ms, i + 1,
             AppendNew(all_sections, ms[i].skill.sections, 1),
             IF ms[i].skill.style # <<>>
             THEN Append(style_parts, ms[i].skill.style) ELSE style_parts)

\* build_output_requirements (lines 52-71): a dict with the keys "sections"
\* and "style"
build_output_requirements(ms) ==
    LET r == MergeRequirements(ms, 1, <<>>, <<>>)
    IN  [sections |-> r.sections, style |-> JoinSpace(r.style_parts)]

RECURSIVE ToolParts(_, _)
ToolParts(tools, i) ==
    IF i > Len(tools) THEN <<>>
    ELSE (IF tools[i].output_format # <<>>
          THEN << [kind |-> "tool", name |-> tools[i].name,
                   description |-> tools[i].description],
                  [kind |-> "text", text |-> tools[i].output_format],
                  [kind |-> "text", text |-> <<>>] >>
          ELSE <<>>)
         \o ToolParts(tools, i + 1)

RECURSIVE ToolsFormatParts(_, _)
ToolsFormatParts(ms, i) ==
    IF i > Len(ms) THEN <<>>
    ELSE ToolParts(ms[i].skill.tools, 1) \o ToolsFormatParts(ms, i + 1)

\* build_tools_format (lines 74-87)
build_tools_format(ms) ==
    IF ms = <<>> THEN <<>> ELSE ToolsFormatParts(ms, 1)

InitExec ==
    /\ MatchIdle
    /\ cs = NoScoreCall
    /\ RetryIdle
    /\ RunIdle
    /\ \E ms \in SeqsUpTo(ExecMatches, MaxMatched), t \in Topics :
           fc = [fn |-> "executor", pc |-> "call", matches |-> ms,
                 topic |-> t, called |-> "none", out |-> <<>>]

ExecCall(name, out) ==
    /\ fc.fn = "executor" /\ fc.pc = "call"
    /\ fc' = [fc EXCEPT !.called = name, !.out = out, !.pc = "done"]
    /\ UNCHANGED nonCall

BuildSkillSystemPrompt ==
    ExecCall("build_skill_system_prompt", build_skill_system_prompt(fc.matches))

BuildSkillStepsPrompt ==
    ExecCall("build_skill_steps_prompt",
             build_skill_steps_prompt(fc.matches, fc.topic))

BuildOutputRequirements ==
    ExecCall("build_output_requirements", build_output_requirements(fc.matches))

BuildToolsFormat ==
    ExecCall("build_tools_format", build_tools_format(fc.matches))

ExecNext ==
    \/ BuildSkillSystemPrompt
    \/ BuildSkillStepsPrompt
    \/ BuildOutputRequirements
    \/ BuildToolsFormat

SpecExec == InitExec /\ [][ExecNext]_vars

-----------------------------------------------------------------------------
(* The skill loader (loader.py 60-139).  A file name is a text of          *)
(* characters that ends with "." and the extension; a file holds one of    *)
(* the contents below; what yaml.safe_load makes of a content is a value   *)
(* of the kinds none, str, int, list and dict.                             *)

MaxFiles == 3              \* most files a skills directory of the model holds

DefaultThreshold == 360    \* trigger_raw.get("threshold", 0.6), in six-hundredths

JNone == [t |-> "none"]
JStr == [t |-> "str"]
EmptyDict == JDict(<<>>)
EmptyList == JList(<<>>)

YamlSuffix == <<".", "yaml">>

FileNames ==
    { <<"a">> \o YamlSuffix, <<"B">> \o YamlSuffix, <<"a", "-">> \o YamlSuffix,
      <<"a", "b">> \o YamlSuffix, <<"a", ".", "txt">> }

FileContents ==
    { "unreadable", "bad", "empty", "list", "str", "{}", "minimal", "full",
      "nullmeta", "nulltools" }

\* open(path) and yaml.safe_load(f) (lines 119-120)
yaml_safe_load(content) ==
    CASE content = "unreadable" -> [exc |-> "OSError"]
      [] content = "bad" -> [exc |-> "YAMLError"]
      [] content = "empty" -> [exc |-> "none", data |-> JNone]
      [] content = "list" -> [exc |-> "none", data |-> JList(<< JStr >>)]
      [] content = "str" -> [exc |-> "none", data |-> JStr]
      [] content = "{}" -> [exc |-> "none", data |-> EmptyDict]
      [] content = "minimal" ->
             [exc |-> "none",
              data |-> JDict([metadata |->
                          JDict([name |-> "bare", display_name |-> "Bare"])])]
      [] content = "full" ->
             [exc |-> "none",
              data |-> JDict(
                 [metadata |->
                      JDict([name |-> "test_skill", display_name |-> "Test",
                             version |-> "2.0", description |-> "A test skill",
                             trigger |->
                                 JDict([domains |-> JList(<<"d1">>),
                                        keywords |-> JList(<<"a">>),
                                        intent_patterns |-> JList(<<"b">>),
                                        threshold |-> 240])]),
                  thinking_framework |->
                      JDict([description |-> "method",
                             steps |-> JList(<< JDict([name |-> "s1",
                                                       prompt |-> "p1"]) >>)]),
                  tools |-> JList(<< JDict([name |-> "t1"]) >>),
                  output_requirements |->
                      JDict([sections |-> JList(<<"A">>), style |-> "st"])])]
      [] content = "nullmeta" ->
             [exc |-> "none", data |-> JDict([metadata |-> JNone])]
      [] content = "nulltools" ->
             [exc |-> "none", data |-> JDict([tools |-> JNone])]

\* what `for x in v: x.get(...)` raises: None and numbers are not iterable,
\* the elements of a str and the keys of a dict have no get
IterGetExc(v) ==
    CASE v.t = "list" ->
             IF \E i \in 1..Len(v.items) : v.items[i].t # "dict"
             THEN "AttributeError" ELSE "none"
      [] v.t \in {"none", "int"} -> "TypeError"
      [] v.t = "str" -> "AttributeError"
      [] v.t = "dict" -> IF DOMAIN v.d = {} THEN "none" ELSE "AttributeError"

ItemsOf(v) == IF v.t = "list" THEN v.items ELSE <<>>

\* parse_skill (lines 60-113)
parse_skill(data, file_path) ==
    IF data.t # "dict" THEN [exc |-> "AttributeError"]
    ELSE
    LET meta_raw == DictGet(data.d, "metadata", EmptyDict)
    IN  IF meta_raw.t # "dict" THEN [exc |-> "AttributeError"]
        ELSE
    LET trigger_raw == DictGet(meta_raw.d, "trigger", EmptyDict)
    IN  IF trigger_raw.t # "dict" THEN [exc |-> "AttributeError"]
        ELSE
    LET tf_raw == DictGet(data.d, "thinking_framework", EmptyDict)
    IN  IF tf_raw.t # "dict" THEN [exc |-> "AttributeError"]
        ELSE
    LET steps_raw == DictGet(tf_raw.d, "steps", EmptyList)
        tools_raw == DictGet(data.d, "tools", EmptyList)
        or_raw == DictGet(data.d, "output_requirements", EmptyDict)
    IN  IF IterGetExc(steps_raw) # "none" THEN [exc |-> IterGetExc(steps_raw)]
        ELSE IF IterGetExc(tools_raw) # "none" THEN [exc |-> IterGetExc(tools_raw)]
        ELSE IF or_raw.t # "dict" THEN [exc |-> "AttributeError"]
        ELSE
        [exc |-> "none",
         skill |->
           [metadata |->
                [name |-> DictGet(meta_raw.d, "name", ""),
                 display_name |-> DictGet(meta_raw.d, "display_name", ""),
                 version |-> DictGet(meta_raw.d, "version", "1.0"),
                 description |-> DictGet(meta_raw.d, "description", ""),
                 trigger |->
                     [domains |-> DictGet(trigger_raw.d, "domains", EmptyList),
                      keywords |-> DictGet(trigger_raw.d, "keywords", EmptyList),
                      intent_patterns |->
                          DictGet(trigger_raw.d, "intent_patterns", EmptyList),
                      threshold |->
                          DictGet(trigger_raw.d, "threshold", DefaultThreshold)]],
            thinking_framework |->
                [description |-> DictGet(tf_raw.d, "description", ""),
                 steps |-> [i \in 1..Len(ItemsOf(steps_raw)) |->
                               ThinkingStep(
                                   DictGet(ItemsOf(steps_raw)[i].d, "name", ""),
                                   DictGet(ItemsOf(steps_raw)[i].d, "prompt", ""))]],
            tools |-> [i \in 1..Len(ItemsOf(tools_raw)) |->
                          SkillTool(
                              DictGet(ItemsOf(tools_raw)[i].d, "name", ""),
                              DictGet(ItemsOf(tools_raw)[i].d, "description", ""),
                              DictGet(ItemsOf(tools_raw)[i].d, "output_format", ""))],
            output_requirements |->
                [sections |-> DictGet(or_raw.d, "sections", EmptyList),
                 style |-> DictGet(or_raw.d, "style", "")],
            file_path |-> file_path]]

\* load_skill_file (lines 116-121)
load_skill_file(file) ==
    LET loaded == yaml_safe_load(file.content)
    IN  IF loaded.exc # "none" THEN [exc |-> loaded.exc]
        ELSE parse_skill(loaded.data, file.name)

\* the code point of a character of a file name
Ord(c) ==
    CASE c = "-" -> 45
      [] c = "." -> 46
      [] c = "B" -> 66
      [] c = "a" -> 97
      [] c = "b" -> 98
      [] c = "txt" -> 116
      [] c = "yaml" -> 121

OrdIgnoringCase(c) == IF c = "B" THEN 98 ELSE Ord(c)

\* a variant that compares names without regard to case
RECURSIVE NameLessIgnoringCase(_, _)
NameLessIgnoringCase(a, b) ==
    IF a = <<>> THEN b # <<>>
    ELSE IF b = <<>> THEN FALSE
    ELSE IF OrdIgnoringCase(Head(a)) # OrdIgnoringCase(Head(b))
    THEN OrdIgnoringCase(Head(a)) < OrdIgnoringCase(Head(b))
    ELSE NameLessIgnoringCase(Tail(a), Tail(b))

\* the order of sorted() on the paths of one directory: the names compare
\* as strings, character by character
RECURSIVE NameLess(_, _)
NameLess(a, b) ==
    IF a = <<>> THEN b # <<>>
    ELSE IF b = <<>> THEN FALSE
    ELSE IF Ord(Head(a)) # Ord(Head(b)) THEN Ord(Head(a)) < Ord(Head(b))
    ELSE NameLess(Tail(a), Tail(b))

\* skills_dir.glob("*.yaml")
EndsWith(s, suffix) ==
    Len(s) >= Len(suffix)
    /\ SubSeq(s, Len(s) - Len(suffix) + 1, Len(s)) = suffix

Glob(files) == { f \in files : EndsWith(f.name, YamlSuffix) }

\* sorted(...) of line 131
RECURSIVE SortedPaths(_)
SortedPaths(files) ==
    IF files = {} THEN <<>>
    ELSE LET least == CHOOSE f \in files :
                          \A g \in files \ {f} : NameLess(f.name, g.name)
         IN  << least >> \o SortedPaths(files \ {least})

\* the directories of the model: missing, or holding up to MaxFiles files
\* with different names
Directories ==
    { [exists |-> FALSE, files |-> {}] }
    \cup { [exists |-> TRUE,
            files |-> { [name |-> n, content |-> d[n]] : n \in DOMAIN d }] :
             d \in UNION { [N -> FileContents] :
                             N \in { X \in SUBSET FileNames :
                                        Cardinality(X) <= MaxFiles } } }

InitLoad ==
    /\ MatchIdle
    /\ cs = NoScoreCall
    /\ RetryIdle
    /\ RunIdle
    /\ \E d \in Directories :
           fc = [fn |-> "load_all_skills", pc |-> "call", dir |-> d,
                 paths |-> <<>>, i |-> 0, skills |-> <<>>, log |-> <<>>,
                 out |-> <<>>]

\* lines 127-128: the directory does not exist
LoadMissingDir ==
    /\ fc.fn = "load_all_skills" /\ fc.pc = "call"
    /\ ~fc.dir.exists
    /\ fc' = [fc EXCEPT !.out = <<>>, !.pc = "done"]
    /\ UNCHANGED nonCall

\* lines 130-131: the paths are globbed and sorted
LoadStart ==
    /\ fc.fn = "load_all_skills" /\ fc.pc = "call"
    /\ fc.dir.exists
    /\ fc' = [fc EXCEPT !.paths = SortedPaths(Glob(fc.dir.files)), !.i = 1,
                        !.pc = "loop"]
    /\ UNCHANGED nonCall

\* lines 133-134: the file loads and its skill is appended
LoadFileOk ==
    /\ fc.fn = "load_all_skills" /\ fc.pc = "loop"
    /\ fc.i <= Len(fc.paths)
    /\ LET r == load_skill_file(fc.paths[fc.i])
       IN  /\ r.exc = "none"
           /\ fc' = [fc EXCEPT !.skills = Append(@, r.skill),
                               !.log = Append(@, [file |-> fc.paths[fc.i],
                                                  result |-> r]),
                               !.i = @ + 1]
    /\ UNCHANGED nonCall

\* lines 135-137: load_skill_file raised; a warning is printed
LoadFileRaise ==
    /\ fc.fn = "load_all_skills" /\ fc.pc = "loop"
    /\ fc.i <= Len(fc.paths)
    /\ LET r == load_skill_file(fc.paths[fc.i])
       IN  /\ r.exc # "none"
           /\ fc' = [fc EXCEPT !.log = Append(@, [file |-> fc.paths[fc.i],
                                                  result |-> r]),
                               !.i = @ + 1]
    /\ UNCHANGED nonCall

\* line 139
LoadReturn ==
    /\ fc.fn = "load_all_skills" /\ fc.pc = "loop"
    /\ fc.i > Len(fc.paths)
    /\ fc' = [fc EXCEPT !.out = fc.skills, !.pc = "done"]
    /\ UNCHANGED nonCall

LoadNext ==
    \/ LoadMissingDir
    \/ LoadStart
    \/ LoadFileOk
    \/ LoadFileRaise
    \/ LoadReturn

SpecLoad == InitLoad /\ [][LoadNext]_vars

-----------------------------------------------------------------------------
(* TopicAgent._llm_call (topic_agent.py 42-60) on its own: the function    *)
(* body under retry_llm_call(max_retries=3, min_wait=2, max_wait=30)       *)

\* what one generate_content call of the service does: it returns a
\* response with a text, with the empty text or with no text, or it raises
ServiceOutcomes ==
    { [kind |-> "text", text |-> <<"o", "k">>],
      [kind |-> "text", text |-> <<>>],
      [kind |-> "none"],
      [kind |-> "raise", type |-> "ConnectionError", base |-> "Exception"],
      [kind |-> "raise", type |-> "KeyboardInterrupt", base |-> "BaseException"] }

\* the body of _llm_call (lines 49-60)
llm_call(service) ==
    CASE service.kind = "none" ->
             Raise("LLMError", "Exception", <<"e", "m", "p", "t", "y">>)
      [] service.kind = "text" -> Ok(service.text)
      [] service.kind = "raise" /\ service.base = "Exception" ->
             Raise("LLMError", "Exception", <<"f", "a", "i", "l", "e", "d">>)
      [] OTHER -> Raise(service.type, service.base, <<>>)

LlmMinWait == 2
LlmMaxWait == 30

InitLlm ==
    /\ MatchIdle
    /\ cs = NoScoreCall
    /\ RunIdle
    /\ \E plan \in [1..LlmMaxRetries -> ServiceOutcomes] :
           /\ fc = [fn |-> "llm_call", service |-> plan]
           /\ rplan = [i \in 1..LlmMaxRetries |-> llm_call(plan[i])]
    /\ rpc = "attempt"
    /\ rconf = [operation |-> "LLM", max_retries |-> LlmMaxRetries,
                min_wait |-> LlmMinWait, max_wait |-> LlmMaxWait]
    /\ rattempt = 1
    /\ rcalls = 0
    /\ routcome = NoOutcome
    /\ revents = <<>>
    /\ rresult = NoOutcome

SpecLlm == InitLlm /\ [][RetryNext]_vars

-----------------------------------------------------------------------------
(* _identify_concerns on its own, after its generate call returned: the    *)
(* responses are JSON arrays of up to MaxConcerns items and two texts that *)
(* are no array                                                            *)

MaxConcerns == 3           \* most items of a response array

\* the items of the arrays: three concerns (importance 5, 8, 5), a record
\* without importance and a number
ConcernAtoms == {"C", "D", "E", "O", "1"}

\* the JSON text of an array of atoms
RECURSIVE CommaJoin(_)
CommaJoin(xs) ==
    IF xs = <<>> THEN <<>>
    ELSE IF Len(xs) = 1 THEN <<xs[1]>>
    ELSE <<xs[1], ",">> \o CommaJoin(Tail(xs))

ArrayText(xs) == <<"[">> \o CommaJoin(xs) \o <<"]">>

ConcernTexts ==
    { ArrayText(xs) : xs \in SeqsUpTo(ConcernAtoms, MaxConcerns) }
        \cup { <<"n", "o">>, <<"O">> }

InitConcerns ==
    /\ MatchIdle
    /\ cs = NoScoreCall
    /\ RetryIdle
    /\ RunIdle
    /\ \E response \in ConcernTexts :
           fc = [fn |-> "identify_concerns", pc |-> "call",
                 response |-> response, result |-> [exc |-> "none", value |-> <<>>]]

\* lines 182-191
IdentifyConcerns ==
    /\ fc.fn = "identify_concerns" /\ fc.pc = "call"
    /\ fc' = [fc EXCEPT !.result = identify_concerns(fc.response), !.pc = "done"]
    /\ UNCHANGED nonCall

SpecConcerns == InitConcerns /\ [][IdentifyConcerns]_vars

-----------------------------------------------------------------------------
(* _insert_into_graph (ingestion/pipeline.py 115-150), from the point      *)
(* where get_rag_instance has returned.  Document k of the batch is the    *)
(* number k; _insert_single is rag.insert under                            *)
(* retry_api_call(max_retries=3), every attempt of which returns or raises *)

MaxDocs == 3               \* most documents of a batch

GraphInsertMaxRetries == 3 \* @retry_api_call(..., max_retries=3, ...)

\* a variant without the try/except around _insert_single
OnInsertRaisedAbort(st) == [st EXCEPT !.pc = "raised"]

\* lines 142-145: the handler counts the document and the loop goes on
OnInsertRaised(st) ==
    [st EXCEPT !.failed_count = @ + 1, !.idx = @ + 1, !.pc = "loop"]

InitInsert ==
    /\ MatchIdle
    /\ cs = NoScoreCall
    /\ RetryIdle
    /\ RunIdle
    /\ \E n \in 0..MaxDocs :
           fc = [fn |-> "insert_into_graph", pc |-> "loop", n |-> n, idx |-> 1,
                 attempt |-> 0, failed_count |-> 0, attempts |-> <<>>]

\* lines 136-141: the next document of the loop, first attempt
InsertStart ==
    /\ fc.fn = "insert_into_graph" /\ fc.pc = "loop"
    /\ fc.idx <= fc.n
    /\ fc' = [fc EXCEPT !.pc = "insert", !.attempt = 1]
    /\ UNCHANGED nonCall

\* line 127 returns: the document is inserted and the loop goes on (line 145)
InsertOk ==
    /\ fc.fn = "insert_into_graph" /\ fc.pc = "insert"
    /\ fc' = [fc EXCEPT
                 !.attempts = Append(@, [doc |-> fc.idx, attempt |-> fc.attempt,
                                         ok |-> TRUE]),
                 !.idx = @ + 1, !.pc = "loop"]
    /\ UNCHANGED nonCall

\* line 127 raises (IngestionError, line 129): another attempt, or the error
\* leaves _insert_single once the attempts are used up
InsertFail ==
    /\ fc.fn = "insert_into_graph" /\ fc.pc = "insert"
    /\ LET logged == [fc EXCEPT
                         !.attempts = Append(@, [doc |-> fc.idx,
                                                 attempt |-> fc.attempt,
                                                 ok |-> FALSE])]
       IN  fc' = IF StopAfterAttempt(fc.attempt, GraphInsertMaxRetries)
                 THEN OnInsertRaised(logged)
                 ELSE [logged EXCEPT !.attempt = @ + 1]
    /\ UNCHANGED nonCall

\* lines 147-150: the loop has ended
InsertBatchEnd ==
    /\ fc.fn = "insert_into_graph" /\ fc.pc = "loop"
    /\ fc.idx > fc.n
    /\ fc' = [fc EXCEPT !.pc = "done"]
    /\ UNCHANGED nonCall

InsertNext == InsertStart \/ InsertOk \/ InsertFail \/ InsertBatchEnd

SpecInsert == InitInsert /\ [][InsertNext]_vars

-----------------------------------------------------------------------------
(* The context text of run (topic_agent.py 92-108) and the slices of it    *)
(* the prompts embed.  A text is the sequence of its segments, a segment   *)
(* being a kind and a number of characters: what _retrieve_knowledge       *)
(* returned, the separator of line 96 and the skill analysis.              *)

AnalysisContextLimit == 8000    \* context[:8000]
ContextLimit == 12000           \* context[:12000]
SeparatorLen == 25              \* "\n\n--- Skill Analysis ---\n"

\* the lengths of the retrieved context and of the analysis text
RetrievedLens == {1, 51, 7999, 11974, 11975, 11990, 12000, 20000}
AnalysisLens == {1, 10, 30, 13000}

Segment(kind, len) == [kind |-> kind, len |-> len]

\* Python slice text[:n] for n >= 0
RECURSIVE Slice(_, _)
Slice(text, n) ==
    IF text = <<>> \/ n = 0 THEN <<>>
    ELSE IF Head(text).len <= n
         THEN <<Head(text)>> \o Slice(Tail(text), n - Head(text).len)
         ELSE << Segment(Head(text).kind, n) >>

\* line 96
AppendAnalysis(context, analysis_len) ==
    context \o << Segment("separator", SeparatorLen),
                  Segment("analysis", analysis_len) >>

InitContext ==
    /\ MatchIdle
    /\ cs = NoScoreCall
    /\ RetryIdle
    /\ RunIdle
    /\ \E r \in RetrievedLens, a \in AnalysisLens, matched \in BOOLEAN :
           fc = [fn |-> "run_context", pc |-> "retrieved", matched |-> matched,
                 context |-> << Segment("retrieved", r) >>,
                 analysis_len |-> a,
                 analysis_prompt |-> <<>>, concerns_prompt |-> <<>>,
                 outline_prompt |-> <<>>]

\* lines 93-96 and 163: skills matched, the analysis is generated from the
\* first 8000 characters of the context and appended to it
ApplySkillAnalysis ==
    /\ fc.fn = "run_context" /\ fc.pc = "retrieved"
    /\ fc.matched
    /\ fc' = [fc EXCEPT
                 !.analysis_prompt = Slice(fc.context, AnalysisContextLimit),
                 !.context = AppendAnalysis(fc.context, fc.analysis_len),
                 !.pc = "analysed"]
    /\ UNCHANGED nonCall

\* line 93: no skill matched
SkipSkillAnalysis ==
    /\ fc.fn = "run_context" /\ fc.pc = "retrieved"
    /\ ~fc.matched
    /\ fc' = [fc EXCEPT !.pc = "analysed"]
    /\ UNCHANGED nonCall

\* lines 102 and 175-179
ConcernsPrompt ==
    /\ fc.fn = "run_context" /\ fc.pc = "analysed"
    /\ fc' = [fc EXCEPT !.concerns_prompt = Slice(fc.context, ContextLimit),
                        !.pc = "concerns"]
    /\ UNCHANGED nonCall

\* lines 108 and 209-215
OutlinePrompt ==
    /\ fc.fn = "run_context" /\ fc.pc = "concerns"
    /\ fc' = [fc EXCEPT !.outline_prompt = Slice(fc.context, ContextLimit),
                        !.pc = "outline"]
    /\ UNCHANGED nonCall

ContextNext ==
    \/ ApplySkillAnalysis
    \/ SkipSkillAnalysis
    \/ ConcernsPrompt
    \/ OutlinePrompt

SpecContext == InitContext /\ [][ContextNext]_vars

-----------------------------------------------------------------------------
(* chunk_text (utils/text.py 18-49).  Positions count from 0 as in Python. *)

MaxTextLen == 5            \* most characters of a text
MaxChunkSize == 4          \* largest chunk_size

\* an ordinary character, the line break, the period and the blank
ChunkChars == {"a", "\n", ".", " "}

ChunkTexts == SeqsUpTo(ChunkChars, MaxTextLen)

\* an index of a slice brought into 0..n, a negative one counting from the end
PyIndex(i, n) ==
    IF i < 0 THEN (IF i + n < 0 THEN 0 ELSE i + n)
    ELSE IF i > n THEN n ELSE i

\* text[i:j]
PySlice(text, i, j) ==
    LET a == PyIndex(i, Len(text))
        b == PyIndex(j, Len(text))
    IN  IF a < b THEN SubSeq(text, a + 1, b) ELSE <<>>

\* text.rfind(sub, lo, hi): the highest position of sub inside text[lo:hi],
\* -1 if there is none
RFindIn(text, sub, lo, hi) ==
    LET a == PyIndex(lo, Len(text))
        b == PyIndex(hi, Len(text))
        found == { p \in a..(b - Len(sub)) :
                      SubSeq(text, p + 1, p + Len(sub)) = sub }
    IN  IF found = {} THEN -1
        ELSE CHOOSE p \in found : \A q \in found : p >= q

\* lines 31 and 37-44: where the chunk that begins at start ends
SplitPos(text, start, chunk_size) ==
    LET end == start + chunk_size
        lo == start + chunk_size \div 2
        para == RFindIn(text, <<"\n", "\n">>, lo, end)
        sent == RFindIn(text, <<".", " ">>, lo, end)
    IN  IF para # -1 THEN para
        ELSE IF sent # -1 THEN sent + 2
        ELSE end

InitChunk ==
    /\ MatchIdle
    /\ cs = NoScoreCall
    /\ RetryIdle
    /\ RunIdle
    /\ \E text \in ChunkTexts, chunk_size \in 1..MaxChunkSize :
           \E overlap \in 0..(chunk_size - 1) :
               fc = [fn |-> "chunk_text", pc |-> "call", text |-> text,
                     chunk_size |-> chunk_size, overlap |-> overlap,
                     start |-> 0, chunks |-> <<>>]

\* lines 24-25
ChunkWhole ==
    /\ fc.fn = "chunk_text" /\ fc.pc = "call"
    /\ Len(fc.text) <= fc.chunk_size
    /\ fc' = [fc EXCEPT !.chunks = <<fc.text>>, !.pc = "done"]
    /\ UNCHANGED nonCall

\* lines 27-28
ChunkEnterLoop ==
    /\ fc.fn = "chunk_text" /\ fc.pc = "call"
    /\ Len(fc.text) > fc.chunk_size
    /\ fc' = [fc EXCEPT !.start = 0, !.pc = "loop"]
    /\ UNCHANGED nonCall

\* lines 33-35: the rest of the text is the last chunk
ChunkLast ==
    /\ fc.fn = "chunk_text" /\ fc.pc = "loop"
    /\ fc.start < Len(fc.text)
    /\ fc.start + fc.chunk_size >= Len(fc.text)
    /\ fc' = [fc EXCEPT
                 !.chunks = Append(@, PySlice(fc.text, fc.start, Len(fc.text))),
                 !.pc = "done"]
    /\ UNCHANGED nonCall

\* lines 37-47: a chunk is cut and the next one starts `overlap` before its
\* end.  A call that has made more chunks than the text has characters is
\* followed no further.
ChunkSplit ==
    /\ fc.fn = "chunk_text" /\ fc.pc = "loop"
    /\ fc.start < Len(fc.text)
    /\ fc.start + fc.chunk_size < Len(fc.text)
    /\ Len(fc.chunks) <= Len(fc.text)
    /\ LET split_pos == SplitPos(fc.text, fc.start, fc.chunk_size)
       IN  fc' = [fc EXCEPT
                     !.chunks = Append(@, PySlice(fc.text, fc.start, split_pos)),
                     !.start = split_pos - fc.overlap]
    /\ UNCHANGED nonCall

ChunkNext == ChunkWhole \/ ChunkEnterLoop \/ ChunkLast \/ ChunkSplit

\* a call of chunk_text goes on as long as it has a step to take
SpecChunk == InitChunk /\ [][ChunkNext]_vars /\ WF_vars(ChunkNext)

-----------------------------------------------------------------------------
(* Properties of the matcher *)

\* C1: when match returns, the result has at most top_k matches and every
\* returned match has a score at least the threshold of its own skill.
C1_TopKAndOwnThreshold ==
    mpc = "done" =>
        /\ Len(mresult) <= top_k
        /\ \A i \in 1..Len(mresult) :
               mresult[i].score >= mresult[i].skill.threshold

\* a return where the limit cut qualifying skills off and a skill of the
\* input did not qualify
C1_Witness ==
    /\ mpc = "done"
    /\ Len(mresult) = top_k
    /\ Len(matches) > top_k
    /\ Len(matches) < Len(skills)

\* C2: the result of match is the first top_k elements of the stable
\* descending-score sort of the qualifying skills: scores never increase
\* along the list, equal scores keep input order, and no qualifying skill
\* that was left out beats (by score, or by input position at an equal
\* score) a returned one.
C2_StableSortThenTruncate ==
    mpc = "done" /\ skills # <<>> =>
        /\ Len(mresult) = Min(top_k, Len(matches))
        /\ Range(mresult) \subseteq Range(matches)
        /\ \A i, j \in 1..Len(mresult) :
               i < j =>
                   /\ mresult[i].score >= mresult[j].score
                   /\ mresult[i].score = mresult[j].score
                          => mresult[i].idx < mresult[j].idx
        /\ \A m \in Range(matches) \ Range(mresult) :
               \A r \in Range(mresult) :
                   /\ m.score <= r.score
                   /\ m.score = r.score => m.idx > r.idx

\* three qualifying skills, two returned with equal scores, and the first
\* skill of the input is not the first of the result
C2_Witness ==
    /\ mpc = "done"
    /\ Len(matches) = 3
    /\ Len(mresult) = 2
    /\ mresult[1].score = mresult[2].score
    /\ mresult[1].idx > 1

\* the three signals, stated from the arguments of the call
RefKeywordTerm(t, keywords) ==
    IF keywords = <<>> THEN 0
    ELSE (KeywordWeight *
          Cardinality({i \in 1..Len(keywords) :
                          IsSubstr(LowerStr(keywords[i]), LowerStr(t))}))
         \div Len(keywords)

RefIntentTerm(t, patterns) ==
    IF patterns = <<>> THEN 0
    ELSE (IntentWeight *
          Cardinality({i \in 1..Len(patterns) :
                          ReSearch(patterns[i], t) = "match"}))
         \div Len(patterns)

\* the search of an intent pattern of the skill raises something the loop
\* does not catch
SearchRaises(skill, t) ==
    \E i \in 1..Len(skill.intent_patterns) :
        ReSearch(skill.intent_patterns[i], t) \notin {"match", "none", "re.error"}

\* C3: the score _compute_score computes is
\* 0.5*domain_sim + 0.3*keyword_ratio + 0.2*intent_ratio, a signal with an
\* empty trigger list contributing 0 and never causing a division by zero
\* or an error.
C3_ScoreFormula ==
    cs.pc = "returned" =>
        /\ cs.out.exc # "none" =>
               cs.out.exc # "ZeroDivisionError" /\ SearchRaises(cs.skill, cs.topic)
        /\ cs.skill.domains = <<>> => cs.out.domain_sim = 0
        /\ cs.skill.keywords = <<>> => cs.out.keyword_score = 0
        /\ cs.out.exc = "none" =>
               cs.out.score = DomainWeight * cs.out.domain_sim
                              + RefKeywordTerm(cs.topic, cs.skill.keywords)
                              + RefIntentTerm(cs.topic, cs.skill.intent_patterns)

\* a skill with domains only, scored above 0
C3_Witness ==
    /\ cs.pc = "returned"
    /\ cs.skill.domains # <<>>
    /\ cs.skill.keywords = <<>>
    /\ cs.skill.intent_patterns = <<>>
    /\ cs.out.score > 0

\* C4: every score _compute_score produces lies in [0, 1].
C4_ScoreInUnitInterval ==
    cs.pc = "returned" =>
        /\ cs.out.score >= 0
        /\ cs.out.score <= ScoreScale

\* a skill all of whose domains have a negative similarity to the topic
C4_Witness ==
    /\ cs.pc = "returned"
    /\ cs.skill.domains # <<>>
    /\ \A i \in 1..Len(cs.embs) :
           cosine_similarity(cs.topic_embedding, cs.embs[i]) < 0
    /\ cs.out.score = 0

-----------------------------------------------------------------------------
(* Properties of the retry wrapper *)

RetryEnded == rpc \in {"returned", "raised"}

IsRaise(o) == o.kind = "exc"

\* the wrapped function raises an Exception on its first k invocations and
\* returns on the next one
FailsThenSucceeds(k) ==
    /\ \A i \in 1..k : RetryIfExceptionType(rplan[i])
    /\ rplan[k + 1].kind = "ok"

\* C7: an operation that raises (an error, i.e. an Exception) on its first
\* k < N attempts and then succeeds is invoked exactly k+1 times, the caller
\* receives the success value, and exactly k retry events are emitted, the
\* i-th after the i-th invocation and carrying attempt number i; none when
\* k = 0.
C7_RetriesThenSucceeds ==
    \A k \in 0..(rconf.max_retries - 1) :
        RetryEnded /\ FailsThenSucceeds(k) =>
            /\ rpc = "returned"
            /\ rcalls = k + 1
            /\ rresult = rplan[k + 1]
            /\ Len(revents) = k
            /\ \A i \in 1..k :
                   /\ revents[i].attempt = i
                   /\ revents[i].after_call = i
                   /\ revents[i].exc_type = rplan[i].type

\* two failures, then success on the third and last attempt
C7_Witness ==
    /\ rpc = "returned"
    /\ rconf.max_retries = 3
    /\ FailsThenSucceeds(2)
    /\ Len(revents) = 2

-----------------------------------------------------------------------------
(* Properties of TopicAgent.run *)

OrderWithAnalysis == Stages
OrderWithoutAnalysis == SelectSeq(Stages, LAMBDA st : st # "SkillAnalysis")

IsPrefix(s, t) == Len(s) <= Len(t) /\ s = SubSeq(t, 1, Len(s))

HasStarted(stage) == stage \in Range(started)
HasReturned(stage) == stage \in Range(returned)

RunEnded == pc \in {"done", "raised"}

\* C5: the stages start in the fixed order Decompose, MatchSkills, Retrieve,
\* (SkillAnalysis), IdentifyConcerns, GenerateOutline; a stage starts only
\* after the stage before it has returned, no stage starts twice, and once a
\* stage has raised no later stage starts.
C5_StagesInFixedOrder ==
    /\ \/ IsPrefix(started, OrderWithAnalysis)
       \/ IsPrefix(started, OrderWithoutAnalysis)
    /\ IsPrefix(returned, started)
    /\ Len(started) <= Len(returned) + 1
    /\ \A i, j \in 1..Len(started) : started[i] = started[j] => i = j
    /\ failed \in Range(Stages) =>
           /\ pc = "raised"
           /\ started[Len(started)] = failed
           /\ returned = SubSeq(started, 1, Len(started) - 1)
    /\ failed = "run" => pc = "raised" /\ returned = started

\* a run with a matched skill went through all six stages
C5_Witness ==
    /\ pc = "done"
    /\ started = OrderWithAnalysis
    /\ returned = started

HeaderSkillsLines(h) == SelectSeq(h, LAMBDA l : l.kind = "skills")

\* C6: in every run SkillAnalysis executes if and only if MatchSkills
\* returned at least one match; the header has an activated-skills line,
\* with the display name and two-decimal score of each match, if and only
\* if a skill matched; with no skill loaded MatchSkills returns the empty
\* list and the embedding service is not called.
C6_SkillAnalysisIffMatched ==
    /\ HasStarted("SkillAnalysis") => skill_matches # <<>>
    /\ RunEnded /\ HasReturned("MatchSkills") =>
           (HasStarted("SkillAnalysis") <=> skill_matches # <<>>)
    /\ pc = "done" =>
           LET ls == HeaderSkillsLines(full_outline.header)
           IN  /\ (ls # <<>>) <=> (skill_matches # <<>>)
               /\ Len(ls) <= 1
               /\ ls # <<>> =>
                      /\ Len(ls[1].info) = Len(skill_matches)
                      /\ \A i \in 1..Len(skill_matches) :
                             /\ ls[1].info[i].display_name
                                    = skill_matches[i].skill.display_name
                             /\ ls[1].info[i].score
                                    = Fmt2(skill_matches[i].score)
    /\ skills = <<>> /\ HasReturned("MatchSkills") =>
           skill_matches = <<>> /\ embedCalls = 0

\* C9: whenever IdentifyConcerns returns, the list it returns holds at least
\* one concern, whatever the response text was.
C9_ConcernsNonEmpty ==
    HasReturned("IdentifyConcerns") => Len(concerns) >= 1

\* the external calls whose exhausted retries may end a run
RetriesExhausted ==
    \/ perror = "LLMError" /\ failed \in LlmStages
                           /\ StopAfterAttempt(pattempt, LlmMaxRetries)
    \/ perror = "EmbeddingError" /\ failed = "MatchSkills"
                                 /\ StopAfterAttempt(mattempt, EmbedMaxRetries)

\* C10: a run ends with an error only when a generate call or the embedding
\* call has exhausted its retries; whatever text Decompose or
\* IdentifyConcerns receive, a run whose calls succeed goes on to
\* GenerateOutline.
C10_FailsOnlyOnExhaustedRetries ==
    pc = "raised" => RetriesExhausted

-----------------------------------------------------------------------------
(* Properties of the Retrieve and Decompose stages *)

\* the elements the loop of _retrieve_knowledge is to visit
SubTopicItems == IterItems(sub_topics)

\* a query that returned text which is not blank
NonBlankEntry(e) == e.out.kind = "ok" /\ Strip(e.out.text) # <<>>

\* the sections of the non-blank entries of a query log, in log order
SectionsOf(log) ==
    LET good == SelectSeq(log, NonBlankEntry)
    IN  [k \in 1..Len(good) |->
            [kind |-> "section",
             label |-> DictGet(SubTopicItems[good[k].idx].d, "sub_topic",
                               good[k].query),
             text |-> good[k].out.text]]

RetrieveLeft == HasStarted("Retrieve") /\ pc # "Retrieve"

\* C11: in the Retrieve stage every sub-topic is queried exactly once, with
\* the requested search mode; a query that raises after its retries is left
\* out without aborting the queries of the other sub-topics; the aggregated
\* context consists of exactly the sections of the sub-topics whose query
\* returned non-blank text, in input order.
C11_EverySubTopicQueriedOnce ==
    /\ \A i \in 1..Len(qlog) :
           /\ qlog[i].idx = i
           /\ qlog[i].mode = search_mode
           /\ qlog[i].query = QueryOf(SubTopicItems[i])
    /\ RetrieveLeft => Len(qlog) = Len(SubTopicItems)
    /\ HasStarted("Retrieve") => results = SectionsOf(qlog)

\* what _retrieve_knowledge returned, before line 96 appends the analysis
RetrieveValue ==
    IF HasReturned("SkillAnalysis")
    THEN SubSeq(retrieved_context, 1, Len(retrieved_context) - 2)
    ELSE retrieved_context

\* C12: the context the Retrieve stage returns is never empty; when no
\* sub-topic yields non-blank text it is exactly the placeholder.
C12_ContextNeverEmpty ==
    HasReturned("Retrieve") =>
        /\ RetrieveValue # <<>>
        /\ (\A i \in 1..Len(qlog) : ~NonBlankEntry(qlog[i]))
               => RetrieveValue = Placeholder
        /\ (\E i \in 1..Len(qlog) : NonBlankEntry(qlog[i]))
               => RetrieveValue = SectionsOf(qlog)

\* two sub-topics, one query raised and one returned blank text
C12_Witness ==
    /\ HasReturned("Retrieve")
    /\ Len(qlog) = 2
    /\ qlog[1].out.kind = "exc"
    /\ qlog[2].out.kind = "ok" /\ qlog[2].out.text = <<" ">>
    /\ retrieved_context = Placeholder

\* the response _decompose_topic received cannot be extracted and decoded
Undecodable(response) == IsJsonExc(JsonLoads(extract_json(response)))

\* C13: Decompose issues exactly one generate call; when the response
\* cannot be extracted and decoded as JSON it returns exactly one pair
\* whose sub_topic and query are the topic, and raises no error.
C13_DecomposeFallback ==
    /\ HasStarted("Decompose") =>
           Cardinality({i \in 1..Len(gcalls) : gcalls[i] = "Decompose"}) = 1
    /\ dresponse # <<>> /\ Undecodable(dresponse) =>
           /\ failed # "Decompose"
           /\ HasReturned("Decompose")
           /\ sub_topics = JList(<< JDict([sub_topic |-> topic,
                                           query |-> topic]) >>)

-----------------------------------------------------------------------------
(* Properties of _extract_json *)

\* C14: _extract_json is idempotent: extracting its own output again gives
\* the same text, for fenced texts, nested fences, whitespace inside a
\* fence and texts without a bracket pair alike.
C14_ExtractIdempotent ==
    fc.fn = "extract_json" /\ fc.pc = "done" => fc.twice = fc.once

-----------------------------------------------------------------------------
(* Properties of the prompt assembler *)

Returned(name) == fc.fn = "executor" /\ fc.pc = "done" /\ fc.called = name

\* the section lists of the matches, one after the other
RECURSIVE AllSections(_, _)
AllSections(ms, i) ==
    IF i > Len(ms) THEN <<>>
    ELSE ms[i].skill.sections \o AllSections(ms, i + 1)

\* the position of the first occurrence of x in s
FirstAt(s, x) == CHOOSE i \in 1..Len(s) : s[i] = x /\ \A j \in 1..(i - 1) : s[j] # x

NonEmptyStyles(ms) ==
    LET styles == [i \in 1..Len(ms) |-> ms[i].skill.style]
    IN  SelectSeq(styles, LAMBDA st : st # <<>>)

\* C15: 'sections' is the concatenation of the matched skills' section lists
\* in match order with every repeated name removed (first occurrence kept,
\* no duplicates, every input section present); 'style' is the non-empty
\* style directives joined by a single space in match order.
C15_MergeSectionsAndStyle ==
    Returned("build_output_requirements") =>
        LET all == AllSections(fc.matches, 1)
            out == fc.out.sections
        IN  /\ \A i, j \in 1..Len(out) : out[i] = out[j] => i = j
            /\ Range(out) = Range(all)
            /\ \A i, j \in 1..Len(out) :
                   i < j => FirstAt(all, out[i]) < FirstAt(all, out[j])
            /\ fc.out.style = JoinSpace(NonEmptyStyles(fc.matches))

\* [A,B] and [B,C] give [A,B,C]; one style directive of two is empty
C15_Witness ==
    /\ Returned("build_output_requirements")
    /\ Len(fc.matches) = 2
    /\ fc.matches[1].skill.sections = <<"A", "B">>
    /\ fc.matches[2].skill.sections = <<"B", "C">>
    /\ fc.out.sections = <<"A", "B", "C">>
    /\ fc.out.style = <<"s">>

\* C16 as stated: with no match none of the four functions raises; the
\* three text builders return the empty string and the output-requirement
\* merge returns an empty mapping.
C16_EmptyMatchesEmptyMapping ==
    fc.fn = "executor" /\ fc.pc = "done" /\ fc.matches = <<>> =>
        IF fc.called = "build_output_requirements"
        THEN DOMAIN fc.out = {}
        ELSE fc.out = <<>>

\* C16, amended: with no match the three text builders return the empty
\* string and the output-requirement merge returns the mapping whose
\* 'sections' is the empty list and whose 'style' is the empty string.
C16_EmptyMatchesEmptyResults ==
    fc.fn = "executor" /\ fc.pc = "done" /\ fc.matches = <<>> =>
        IF fc.called = "build_output_requirements"
        THEN /\ DOMAIN fc.out = {"sections", "style"}
             /\ fc.out.sections = <<>>
             /\ fc.out.style = <<>>
        ELSE fc.out = <<>>

C16_Witness ==
    /\ Returned("build_skill_steps_prompt")
    /\ fc.matches = <<>>
    /\ fc.out = <<>>

-----------------------------------------------------------------------------
(* Properties of the skill loader *)

LoadDone == fc.fn = "load_all_skills" /\ fc.pc = "done"

\* name a comes before name b in ascending order of the names as strings
NameBefore(a, b) ==
    \E k \in 1..(Len(a) + 1) :
        /\ \A j \in 1..(k - 1) : j <= Len(b) /\ a[j] = b[j]
        /\ \/ k = Len(a) + 1 /\ Len(b) >= k
           \/ k <= Len(a) /\ k <= Len(b) /\ Ord(a[k]) < Ord(b[k])

\* the .yaml files of the directory that load without raising
LoadableFiles ==
    { f \in fc.dir.files :
        EndsWith(f.name, YamlSuffix) /\ load_skill_file(f).exc = "none" }

\* C17: load_all_skills returns the skills of the .yaml files that loaded,
\* in ascending filename order; a file whose reading or parsing raises is
\* skipped, the other files are still loaded and load_all_skills does not
\* raise; a missing or empty directory gives the empty list.
C17_LoadsAllGoodFilesInOrder ==
    /\ fc.fn = "load_all_skills" => fc.pc \in {"call", "loop", "done"}
    /\ LoadDone =>
           /\ Len(fc.out) = Cardinality(LoadableFiles)
           /\ \A f \in LoadableFiles :
                  \E k \in 1..Len(fc.out) :
                      /\ fc.out[k] = load_skill_file(f).skill
                      /\ fc.out[k].file_path = f.name
           /\ \A i, j \in 1..Len(fc.out) :
                  i < j => NameBefore(fc.out[i].file_path, fc.out[j].file_path)
           /\ (~fc.dir.exists \/ fc.dir.files = {}) => fc.out = <<>>

\* B.yaml and a.yaml load, a-.yaml between them does not parse
C17_Witness ==
    /\ LoadDone
    /\ Len(fc.log) = 3
    /\ fc.log[2].result.exc = "YAMLError"
    /\ Len(fc.out) = 2
    /\ fc.out[1].file_path = <<"B", ".", "yaml">>
    /\ fc.out[2].file_path = <<"a", ".", "yaml">>

\* the Skill whose fields all have their defaults
EmptyDefaultSkill(file_path) ==
    [metadata |->
         [name |-> "", display_name |-> "", version |-> "1.0", description |-> "",
          trigger |-> [domains |-> EmptyList, keywords |-> EmptyList,
                       intent_patterns |-> EmptyList,
                       threshold |-> DefaultThreshold]],
     thinking_framework |-> [description |-> "", steps |-> <<>>],
     tools |-> <<>>,
     output_requirements |-> [sections |-> EmptyList, style |-> ""],
     file_path |-> file_path]

\* C18: parse_skill raises only for input that is not a mapping, and for
\* such input (the null of an empty file, a list, a string) the caller
\* receives an empty-default Skill, not a crash; for a mapping with missing
\* optional fields it returns a Skill with threshold 0.6 and empty lists.
C18_ParseToleratesMalformedInput ==
    fc.fn = "load_all_skills" =>
        \A k \in 1..Len(fc.log) :
            LET loaded == yaml_safe_load(fc.log[k].file.content)
                result == fc.log[k].result
            IN  loaded.exc = "none" =>
                    /\ result.exc # "none" => loaded.data.t # "dict"
                    /\ loaded.data.t # "dict" =>
                           /\ result.exc = "none"
                           /\ result.skill = EmptyDefaultSkill(fc.log[k].file.name)
                    /\ loaded.data = EmptyDict =>
                           /\ result.exc = "none"
                           /\ result.skill = EmptyDefaultSkill(fc.log[k].file.name)

-----------------------------------------------------------------------------
(* Properties of _llm_call and of the backoff *)

\* C19: the generate operation either returns a response text or fails with
\* LLMError: every exception of the service call and every empty or absent
\* response text leads to LLMError after the retries, never to an empty or
\* absent value being returned or to another exception type.
C19_TextOrLLMError ==
    fc.fn = "llm_call" =>
        /\ rpc = "returned" => rresult.kind = "ok" /\ rresult.value # <<>>
        /\ rpc = "raised" => rresult.kind = "exc" /\ rresult.type = "LLMError"

\* 2 * 2^(n-1) clamped into [lo, hi]
ClampedBackoff(n, lo, hi) ==
    LET raw == DEFAULT_MULTIPLIER * 2 ^ (n - 1)
    IN  IF raw < lo THEN lo ELSE IF raw > hi THEN hi ELSE raw

\* C20: the wait after failed attempt n is 2 * 2^(n-1) clamped into
\* [min_wait, max_wait]; the waits are non-decreasing, never below min_wait
\* and never above max_wait, and no wait follows the final attempt.
C20_BackoffWaits ==
    rpc # "idle" /\ fc = NoCall =>
        /\ \A i \in 1..Len(revents) :
               /\ revents[i].wait = ClampedBackoff(revents[i].attempt,
                                                   rconf.min_wait, rconf.max_wait)
               /\ revents[i].wait >= rconf.min_wait
               /\ revents[i].wait <= rconf.max_wait
               /\ revents[i].attempt = i
        /\ \A i, j \in 1..Len(revents) :
               i <= j => revents[i].wait <= revents[j].wait
        /\ Len(revents) <= rcalls
        /\ RetryEnded => Len(revents) = rcalls - 1
        /\ Len(revents) < rconf.max_retries

\* three attempts with min_wait 2 and max_wait 3: the waits are 2 and then
\* 4 clamped to 3, and none follows the third attempt
C20_Witness ==
    /\ rpc = "raised"
    /\ rconf.min_wait = 2 /\ rconf.max_wait = 3
    /\ rcalls = 3
    /\ Len(revents) = 2
    /\ revents[1].wait = 2
    /\ revents[2].wait = 3

-----------------------------------------------------------------------------
(* What _extract_json returns, stated by positions in the text *)

\* t without the whitespace before its first and after its last character
\* that is not whitespace
Trimmed(t) ==
    LET ink == { i \in 1..Len(t) : ~IsSpace(t[i]) }
    IN  IF ink = {} THEN <<>>
        ELSE SubSeq(t, CHOOSE i \in ink : \A j \in ink : i <= j,
                       CHOOSE i \in ink : \A j \in ink : i >= j)

\* s without its first line when s starts with the fence marker, and without
\* its last line when that line holds the fence marker and nothing else
DeFenced(s) ==
    IF ~StartsWith(s, Fence) THEN s
    ELSE LET breaks == { i \in 1..Len(s) : s[i] = "\n" }
         IN  IF breaks = {} THEN <<>>
             ELSE LET first == CHOOSE i \in breaks : \A j \in breaks : i <= j
                      last == CHOOSE i \in breaks : \A j \in breaks : i >= j
                      lastLine == SubSeq(s, last + 1, Len(s))
                  IN  IF Trimmed(lastLine) = Fence
                      THEN SubSeq(s, first + 1, last - 1)
                      ELSE SubSeq(s, first + 1, Len(s))

\* the text from the first "[" to the last "]" when some "[" stands before
\* some "]", the text itself otherwise
BracketSlice(s) ==
    LET opens == { i \in 1..Len(s) : s[i] = "[" }
        closes == { i \in 1..Len(s) : s[i] = "]" }
    IN  IF \E i \in opens : \E j \in closes : i < j
        THEN SubSeq(s, CHOOSE i \in opens : \A k \in opens : i <= k,
                       CHOOSE j \in closes : \A k \in closes : j >= k)
        ELSE s

\* C21: for every input _extract_json returns the trimmed text, without its
\* first line if it starts with a fence marker and without a last line that
\* is a closing fence, cut to the span from the first "[" to the last "]"
\* when a "[" stands before a "]" and left as it is otherwise; the result is
\* a contiguous part of the input.
C21_ExtractReturnsBracketSpan ==
    fc.fn = "extract_json" /\ fc.pc # "call" =>
        /\ fc.once = BracketSlice(DeFenced(Trimmed(fc.text)))
        /\ IsSubstr(fc.once, fc.text)

\* a text that opens with a fence: its first line is dropped and the
\* bracket span is shorter than what is left
C21_Witness ==
    /\ fc.fn = "extract_json" /\ fc.pc = "done"
    /\ fc.text = Fence \o <<"\n", "x", "[", "]">>
    /\ fc.once = <<"[", "]">>

-----------------------------------------------------------------------------
(* The _embed calls of one match invocation *)

\* the domain lists of the skills before position n that have domains, in
\* the order of the skills
RECURSIVE DomainListsBefore(_, _)
DomainListsBefore(ss, n) ==
    IF n <= 1 THEN <<>>
    ELSE DomainListsBefore(ss, n - 1) \o
         (IF ss[n - 1].domains # <<>> THEN << ss[n - 1].domains >> ELSE <<>>)

\* the skills whose scoring has begun
ScoringBegun ==
    IF mpc = "embed_domains" THEN midx + 1 ELSE midx

\* C22: one match invocation on a non-empty skill list, its embedding calls
\* succeeding, asks for the topic embedding exactly once and before any skill
\* is scored, and asks for domain embeddings once per skill with a non-empty
\* domain list (all its domains in that one call) and never for a skill
\* without domains: 1 + (number of skills with domains) _embed calls in all,
\* and none when the skill list is empty.
C22_EmbedCallsBatchedPerSkill ==
    pc = "idle" /\ mpc \notin {"idle", "raised"} =>
        /\ embedCalls = Len(embedTexts)
        /\ skills = <<>> => embedCalls = 0
        /\ mpc = "embed_topic" =>
               embedTexts = << <<topic>> >> /\ midx = 0 /\ matches = <<>>
        /\ mpc \in {"score", "embed_domains", "done"} /\ skills # <<>> =>
               embedTexts = << <<topic>> >> \o DomainListsBefore(skills, ScoringBegun)
        /\ mpc = "done" /\ skills # <<>> =>
               embedCalls = 1 + Cardinality({ i \in 1..Len(skills) :
                                                 skills[i].domains # <<>> })

\* three skills, one without domains between two with domains: three calls
C22_Witness ==
    /\ pc = "idle" /\ mpc = "done"
    /\ Len(skills) = 3
    /\ skills[1].domains # <<>>
    /\ skills[2].domains = <<>>
    /\ Len(skills[3].domains) = 2
    /\ embedCalls = 3

-----------------------------------------------------------------------------
(* domain_sim of _compute_score *)

\* the largest cosine similarity between the topic embedding and the
\* embedding of a domain
MaxSimilarity(tvec, embs) ==
    LET sims == { cosine_similarity(tvec, embs[i]) : i \in 1..Len(embs) }
    IN  CHOOSE s \in sims : \A r \in sims : s >= r

\* C23: for a skill with a non-empty domain list, domain_sim is the maximum
\* over the skill's domains of the cosine similarity between the topic
\* embedding and the domain's embedding, whatever the similarities in
\* [-1, 1] are; for a skill with no domains it is 0.
C23_DomainSimIsMax ==
    cs.pc = "returned" =>
        cs.out.domain_sim =
            IF cs.skill.domains = <<>> THEN 0
            ELSE MaxSimilarity(cs.topic_embedding, cs.embs)

-----------------------------------------------------------------------------
(* Properties of _identify_concerns *)

\* the permutations of 1..n
Orderings(n) ==
    { p \in [1..n -> 1..n] : \A i, j \in 1..n : p[i] = p[j] => i = j }

\* C24: when the IdentifyConcerns response decodes to a list of concern
\* records, the returned list is a permutation of the decoded list, sorted
\* by importance in non-increasing order, and concerns of equal importance
\* keep the relative order they had in the response.
C24_ConcernsStablySorted ==
    fc.fn = "identify_concerns" /\ fc.pc = "done" =>
        LET decoded == JsonLoads(extract_json(fc.response))
        IN  (/\ decoded.t = "list"
             /\ \A i \in 1..Len(decoded.items) : decoded.items[i].t = "dict") =>
                /\ fc.result.exc = "none"
                /\ Len(fc.result.value) = Len(decoded.items)
                /\ \E p \in Orderings(Len(decoded.items)) :
                       /\ \A i \in 1..Len(decoded.items) :
                              fc.result.value[i] = decoded.items[p[i]]
                       /\ \A i, j \in 1..Len(decoded.items) :
                              i < j =>
                                  /\ Importance(decoded.items[p[i]])
                                         >= Importance(decoded.items[p[j]])
                                  /\ Importance(decoded.items[p[i]])
                                         = Importance(decoded.items[p[j]])
                                         => p[i] < p[j]

\* importance 5, 8, 5 in the response: the concern of importance 8 comes
\* first and the two of importance 5 keep their order
C24_Witness ==
    /\ fc.fn = "identify_concerns" /\ fc.pc = "done"
    /\ fc.response = <<"[", "C", ",", "D", ",", "E", "]">>
    /\ fc.result.value = << Concern("d", 8), Concern("c", 5), Concern("e", 5) >>

-----------------------------------------------------------------------------
(* matched_keywords and keyword_score of _compute_score *)

\* keyword k occurs in topic t, letter case aside
OccursIgnoringCase(k, t) == IsSubstr(LowerStr(k), LowerStr(t))

\* C25: matched_keywords is exactly the sequence of the skill's trigger
\* keywords, in trigger order, that occur as case-insensitive substrings of
\* the topic, and keyword_ratio is |matched_keywords| / |trigger keywords|,
\* 0 when the skill has no keywords (keyword_score holds 0.3 * ratio).
C25_MatchedKeywords ==
    cs.pc = "returned" =>
        LET kws == cs.skill.keywords
            expected == SelectSeq(kws, LAMBDA k : OccursIgnoringCase(k, cs.topic))
        IN  /\ cs.out.matched_keywords = expected
            /\ kws = <<>> => cs.out.keyword_score = 0
            /\ kws # <<>> =>
                   cs.out.keyword_score * Len(kws) = KeywordWeight * Len(expected)

\* two of three keywords occur in the topic, one of them in another letter
\* case: ratio 2/3
C25_Witness ==
    /\ cs.pc = "returned"
    /\ cs.topic = <<"A", "b">>
    /\ cs.skill.keywords = << <<"a">>, <<"a">>, <<"b", "b">> >>
    /\ cs.out.matched_keywords = << <<"a">>, <<"a">> >>
    /\ cs.out.keyword_score * 3 = KeywordWeight * 2

-----------------------------------------------------------------------------
(* Intent patterns that are no valid regular expression *)

\* pattern p is rejected by the regular-expression engine
Malformed(p, t) == ReSearch(p, t) \notin {"match", "none"}

\* C26: a malformed regular expression among a skill's intent_patterns never
\* makes _compute_score raise: it counts as non-matching (it stays in the
\* denominator of intent_ratio and adds nothing to the numerator) and the
\* skill's remaining patterns are still evaluated.
C26_MalformedPatternIgnored ==
    cs.pc = "returned" =>
        LET ps == cs.skill.intent_patterns
        IN  (\E i \in 1..Len(ps) : Malformed(ps[i], cs.topic)) =>
                /\ cs.out.exc = "none"
                /\ cs.out.intent_score * Len(ps) =
                       IntentWeight *
                       Cardinality({ i \in 1..Len(ps) :
                                       ReSearch(ps[i], cs.topic) = "match" })

-----------------------------------------------------------------------------
(* Properties of _insert_into_graph *)

\* the attempts made for document d, in the order they were made
AttemptsOf(d) == SelectSeq(fc.attempts, LAMBDA a : a.doc = d)

\* every attempt made for document d failed
AllFailed(d) == \A i \in 1..Len(AttemptsOf(d)) : ~AttemptsOf(d)[i].ok

\* the number of times document d was inserted
Insertions(d) ==
    Cardinality({ i \in 1..Len(AttemptsOf(d)) : AttemptsOf(d)[i].ok })

\* C27: every document of the batch is attempted, in input order, with at
\* most 3 insert attempts each; a document whose insertion still fails after
\* its retries is counted as failed and neither aborts the batch nor raises
\* to the caller: after the batch the failed count is the number of
\* documents whose every attempt failed, and every other document was
\* inserted exactly once.
C27_FailedInsertsCountedNotRaised ==
    fc.fn = "insert_into_graph" =>
        /\ fc.pc # "raised"
        /\ \A i, j \in 1..Len(fc.attempts) :
               i < j => fc.attempts[i].doc <= fc.attempts[j].doc
        /\ \A d \in 1..fc.n :
               /\ Len(AttemptsOf(d)) <= GraphInsertMaxRetries
               /\ \A i \in 1..Len(AttemptsOf(d)) : AttemptsOf(d)[i].attempt = i
               /\ Insertions(d) <= 1
        /\ fc.pc = "done" =>
               /\ \A d \in 1..fc.n : AttemptsOf(d) # <<>>
               /\ fc.failed_count =
                      Cardinality({ d \in 1..fc.n : AllFailed(d) })
               /\ \A d \in 1..fc.n :
                      /\ AllFailed(d) => Len(AttemptsOf(d)) = GraphInsertMaxRetries
                      /\ ~AllFailed(d) => Insertions(d) = 1

\* a batch of three: the first document fails three times, the second is
\* inserted at its second attempt, the third at its first
C27_Witness ==
    /\ fc.fn = "insert_into_graph" /\ fc.pc = "done"
    /\ fc.n = 3
    /\ fc.failed_count = 1
    /\ Len(AttemptsOf(1)) = 3 /\ AllFailed(1)
    /\ Len(AttemptsOf(2)) = 2 /\ Insertions(2) = 1
    /\ Len(AttemptsOf(3)) = 1 /\ Insertions(3) = 1

-----------------------------------------------------------------------------
(* Termination of TopicAgent.run and the number of its external calls *)

\* at most 3 attempts of every generate, embed and knowledge-store call
AttemptsBounded ==
    /\ pattempt <= LlmMaxRetries
    /\ pattempt <= KbMaxRetries
    /\ mattempt <= EmbedMaxRetries

\* at most 4 generate calls, 3 when no skill matched; at most one embedding
\* call more than there are skills
CallsBounded ==
    /\ Len(gcalls) <= 4
    /\ RunEnded /\ skill_matches = <<>> => Len(gcalls) <= 3
    /\ embedCalls <= 1 + Len(skills)

\* one knowledge-store call per sub-topic
OneQueryPerSubTopic ==
    /\ Len(qlog) <= Len(SubTopicItems)
    /\ \A i \in 1..Len(qlog) : qlog[i].idx = i
    /\ RetrieveLeft => Len(qlog) = Len(SubTopicItems)

\* C28: every external call returning or raising, every run of
\* TopicAgent.run ends (returns a path or raises) after a bounded number of
\* external attempts: at most 3 attempts of each generate, embed and
\* knowledge-store call, at most 4 generate calls (3 when no skill
\* matched), at most 1 + (number of skills) embedding calls and exactly one
\* knowledge-store call per sub-topic.
C28_TerminatesWithinBounds ==
    /\ [](AttemptsBounded /\ CallsBounded /\ OneQueryPerSubTopic)
    /\ <>RunEnded

-----------------------------------------------------------------------------
(* Properties of the context the prompts embed *)

\* the whole analysis text is part of text
HoldsAnalysis(text) ==
    \E i \in 1..Len(text) :
        text[i].kind = "analysis" /\ text[i].len = fc.analysis_len

\* C29: whenever the SkillAnalysis stage ran, its output text, appended to
\* the context under the separator, is contained in the context part of the
\* prompt of IdentifyConcerns and of the prompt of GenerateOutline, whatever
\* the length of the retrieved context.
C29_AnalysisReachesPrompts ==
    fc.fn = "run_context" /\ fc.matched =>
        /\ fc.pc \in {"concerns", "outline"} => HoldsAnalysis(fc.concerns_prompt)
        /\ fc.pc = "outline" => HoldsAnalysis(fc.outline_prompt)

-----------------------------------------------------------------------------
(* Properties of chunk_text *)

\* the start position grows with every iteration of the loop
StartIncreases ==
    fc.fn = "chunk_text" /\ fc.pc = "loop" /\ fc'.pc = "loop" =>
        fc'.start > fc.start

\* what chunk_text returns
ChunksNonEmpty ==
    fc.fn = "chunk_text" /\ fc.pc = "done" =>
        /\ fc.chunks # <<>>
        /\ fc.text # <<>> => \A i \in 1..Len(fc.chunks) : fc.chunks[i] # <<>>
        /\ Len(fc.text) <= fc.chunk_size => fc.chunks = <<fc.text>>

\* C30: chunk_text terminates for every text, every chunk_size > 0 and every
\* overlap with 0 <= overlap < chunk_size: the start position strictly
\* increases on every loop iteration, whichever split is chosen, and the
\* call returns a finite list of non-empty chunks, [text] when
\* len(text) <= chunk_size.
C30_ChunkTextTerminates ==
    /\ [][StartIncreases]_vars
    /\ []ChunksNonEmpty
    /\ <>(fc.pc = "done")

=============================================================================
